---- MODULE Spec2Model ----
(***************************************************************************)
(* Authorization-and-submission pipeline of the prompt-mining backend:     *)
(* the nonce manager, the PZERO authorization client with its retry loop,  *)
(* and the mint flows of promptMiningService / blockchainService.          *)
(*                                                                         *)
(* The process is a single-threaded event loop.  Every action below is the *)
(* synchronous code that runs between two awaits of one async function, so *)
(* an action is atomic exactly where the JavaScript is.                    *)
(***************************************************************************)
EXTENDS Integers, Sequences, FiniteSets, TLC

\* ---------------------------------------------------------------- bounds
NumAttempts == 3
NumPipelines == 2
MaxLedgerCount == 1
MaxRetryAttempts == 3
PipelineRetryAttempts == 2

\* ------------------------------------------------------- program constants
ForwarderGasBuffer == 50000
DefaultGas == 500000

Undefined == "undefined"
NoNonce == -1

Attempts == 1..NumAttempts

\* config.chains (PM_CHAINS), in configuration order
Chains == <<"c1", "c2">>
ChainIds == {Chains[k] : k \in 1..Len(Chains)}
UnknownChain == "c9"
ChainArgs == {Undefined} \cup ChainIds \cup {UnknownChain}

Prompts == {"p1", "p2"}
Authors == {"u1", "u2"}
PromptMinerAddress == "promptMiner"
ConfiguredChainId == "c1"
Times == {1, 2}

\* ------------------------------------------------------------ pure helpers

\* config.getChainConfig: the configured chain with that id, or null
getChainConfig(chainId) ==
  IF chainId \in ChainIds THEN chainId ELSE "null"

\* config.getDefaultChainConfig: config.chains[0]
getDefaultChainConfig == Chains[1]

\* blockchainService.initializeBlockchain: chainId ? getChainConfig : default;
\* "null" stands for the thrown "Chain with ID ... not found"
initializeBlockchain(chainId) ==
  IF chainId # Undefined THEN getChainConfig(chainId) ELSE getDefaultChainConfig

\* executeMint / executeMetaTxMint: chainId || getDefaultChainConfig().chainId
actualChainIdAlwaysDefault(chainId) == getDefaultChainConfig

actualChainId(chainId) ==
  IF chainId # Undefined THEN chainId ELSE getDefaultChainConfig

\* utils/crypto.hashPrompt: keccak256 of the UTF-8 bytes, an injective table here
hashPromptLeak(prompt) == prompt

hashPrompt(prompt) ==
  CASE prompt = "p1" -> "0xh1"
    [] prompt = "p2" -> "0xh2"
    [] OTHER -> "0xh0"

Digests == {hashPrompt(p) : p \in Prompts}

\* A reward string: the integer it spells ("10"), text parseFloat reads no
\* number from ("abc"), or text parseFloat reads a number from but BigInt
\* rejects ("1.5", "10abc")
Str(n) == [isNumber |-> TRUE, isInteger |-> TRUE, n |-> n]
NotANumber == [isNumber |-> FALSE, isInteger |-> FALSE, n |-> 0]
Fractional == [isNumber |-> TRUE, isInteger |-> FALSE, n |-> 1]

\* The ABI word of a uint256 is 64 hexadecimal digits; the model keeps the
\* layout and shortens the word
WordDigits == 2
UintMax == 16 ^ WordDigits - 1

\* AbiCoder.encode(['uint256'], [n]): the big-endian digits of n, left-padded
\* with zeros to the word
abiEncodeUint(n) ==
  [k \in 1..WordDigits |-> (n \div (16 ^ (WordDigits - k))) % 16]

\* utils/crypto.encodeActivityPoints for a single value; "throw" is BigInt's
\* SyntaxError on a string that is not an integer, or the coder's
\* 'value out-of-bounds' on an integer the word cannot hold
encodeActivityPointsZeroIsNone(points) ==
  IF ~points.isInteger THEN [type |-> "throw", value |-> <<>>]
  ELSE IF points.n <= 0 THEN [type |-> "0x", value |-> <<>>]
  ELSE IF points.n > UintMax THEN [type |-> "throw", value |-> <<>>]
  ELSE [type |-> "uint256", value |-> abiEncodeUint(points.n)]

encodeActivityPoints(points) ==
  IF ~points.isInteger THEN [type |-> "throw", value |-> <<>>]
  ELSE IF points.n < 0 THEN [type |-> "0x", value |-> <<>>]
  ELSE IF points.n > UintMax THEN [type |-> "throw", value |-> <<>>]
  ELSE [type |-> "uint256", value |-> abiEncodeUint(points.n)]

\* ------------------------------------------------- PZERO authorization client

\* What one POST /authorize/mint can end in: a 2xx answer, or an AxiosError
GatewayStatuses == {"401", "402", "403", "429", "503", "500"}
GatewayOutcomes == {"ok", "ECONNABORTED", "ETIMEDOUT", "noresponse"} \cup GatewayStatuses
TransientOutcomes == {"ECONNABORTED", "ETIMEDOUT", "noresponse", "429", "503", "500"}
FatalOutcomes == {"401", "402", "403"}

\* The HTTP status in an answer; NoStatus stands for undefined
NoStatus == 0

StatusOf(outcome) ==
  CASE outcome = "401" -> 401
    [] outcome = "402" -> 402
    [] outcome = "403" -> 403
    [] outcome = "429" -> 429
    [] outcome = "503" -> 503
    [] outcome = "500" -> 500
    [] OTHER -> NoStatus

\* The error pzeroClient.post rejects with: axios has no interceptor here, so the
\* rejection is the raw AxiosError (its code, and its response status if any).
\* An AxiosError has no statusCode field.
AxiosError(outcome) ==
  [name |-> "AxiosError",
   code |-> IF outcome \in {"ECONNABORTED", "ETIMEDOUT"} THEN outcome
            ELSE IF outcome = "noresponse" THEN "ERR_NETWORK" ELSE "ERR_BAD_RESPONSE",
   status |-> StatusOf(outcome),
   statusCode |-> NoStatus]

\* new Error('Retry logic failed unexpectedly'), thrown after the for loop
RetryLogicError ==
  [name |-> "Error", code |-> Undefined, status |-> NoStatus, statusCode |-> NoStatus]

NoError ==
  [name |-> "none", code |-> Undefined, status |-> NoStatus, statusCode |-> NoStatus]

\* retryWithBackoff's first test in the catch block:
\*   error instanceof PZeroError && error.statusCode && error.statusCode < 500
isClientErrorByStatus(error) ==
  /\ error.status # NoStatus
  /\ error.status < 500

isClientError(error) ==
  /\ error.name = "PZeroError"
  /\ error.statusCode # NoStatus
  /\ error.statusCode < 500

\* retryWithBackoff's second test: i === attempts - 1
isLastAttempt(i, attempts) == i = attempts - 1

\* retryWithBackoff: Math.pow(2, i) * 1000 milliseconds
backoffDelayFromTwo(i) == (2 ^ (i + 1)) * 1000

backoffDelay(i) == (2 ^ i) * 1000

\* handlePZeroApiError: the PZeroError code thrown for a caught error
handlePZeroApiErrorNo402(error) ==
  IF error.name = "AxiosError" THEN
    IF error.code \in {"ECONNABORTED", "ETIMEDOUT"} THEN "PZERO_TIMEOUT"
    ELSE IF error.status = NoStatus THEN "PZERO_UNAVAILABLE"
    ELSE CASE error.status = 401 -> "INVALID_API_KEY"
           [] error.status = 403 -> "INVALID_TIER"
           [] error.status = 429 -> "RATE_LIMITED"
           [] error.status = 503 -> "PZERO_UNAVAILABLE"
           [] OTHER -> "PZERO_ERROR"
  ELSE "PZERO_ERROR"

handlePZeroApiErrorResponseFirst(error) ==
  IF error.name = "AxiosError" THEN
    IF error.status = NoStatus THEN "PZERO_UNAVAILABLE"
    ELSE IF error.code \in {"ECONNABORTED", "ETIMEDOUT"} THEN "PZERO_TIMEOUT"
    ELSE CASE error.status = 401 -> "INVALID_API_KEY"
           [] error.status = 402 -> "QUOTA_EXCEEDED"
           [] error.status = 403 -> "INVALID_TIER"
           [] error.status = 429 -> "RATE_LIMITED"
           [] error.status = 503 -> "PZERO_UNAVAILABLE"
           [] OTHER -> "PZERO_ERROR"
  ELSE "PZERO_ERROR"

handlePZeroApiError(error) ==
  IF error.name = "AxiosError" THEN
    IF error.code \in {"ECONNABORTED", "ETIMEDOUT"} THEN "PZERO_TIMEOUT"
    ELSE IF error.status = NoStatus THEN "PZERO_UNAVAILABLE"
    ELSE CASE error.status = 401 -> "INVALID_API_KEY"
           [] error.status = 402 -> "QUOTA_EXCEEDED"
           [] error.status = 403 -> "INVALID_TIER"
           [] error.status = 429 -> "RATE_LIMITED"
           [] error.status = 503 -> "PZERO_UNAVAILABLE"
           [] OTHER -> "PZERO_ERROR"
  ELSE "PZERO_ERROR"

\* requestMintAuthorization: the PZeroMintAuthRequest posted to /authorize/mint
requestBody(promptHash, author, activityPoints, signerAddress, timestamp) ==
  [promptHash |-> promptHash,
   author |-> author,
   activityPoints |-> activityPoints,
   signerAddress |-> signerAddress,
   chainId |-> ConfiguredChainId,
   timestamp |-> timestamp]

\* The authorization in the n-th answer to an attempt's request
Authorization(body, n) == [signature |-> <<"sig", body.promptHash, body.author, n>>]

\* ------------------------------------------------------------------- state

VARIABLES
  server,          \* index.ts: "boot", "listening" or "exited"
  retryAttempts,   \* config.pzero.retryAttempts
  nonces,          \* nonceManager's Map: seeded chain id -> next nonce
  initPc,          \* initializeNonces: per chain "idle", "awaiting" or "done"
  seeds,           \* the value each chain's counter was first set to
  allocLog,        \* per chain, the values getAndIncrementNonce returned, in order
  ledgerCount,     \* ledger: the wallet's mined transactions per chain
  pendingCount,    \* ledger: the wallet's transactions submitted but not mined
  minted,          \* ledger: digests PromptMiner reports as minted, per chain
  forwarderNonce,  \* ledger: the forwarder's nonces(from) on the default chain
  att,             \* per attempt: the call's locals and where it is suspended
  gatewayLog,      \* per attempt: the bodies posted to /authorize/mint, in order
  ledgerLog        \* per attempt: the transactions handed to the ledger, in order

vars == <<server, retryAttempts, nonces, initPc, seeds, allocLog, ledgerCount,
          pendingCount, minted, forwarderNonce, att, gatewayLog, ledgerLog>>

nonceVars == <<nonces, initPc, seeds, allocLog>>
ledgerVars == <<ledgerCount, pendingCount, minted, forwarderNonce>>

NoAuthorization == [signature |-> <<>>]
NoEnvelope ==
  [from |-> "", to |-> "", value |-> 0, gas |-> 0, nonce |-> NoNonce,
   deadline |-> 0, data |-> <<>>]

\* What a read-only call returns: PromptStatusResponse.isMinted,
\* ActivityPointsBalanceResponse.balanceWei
NoResult == [isMinted |-> FALSE, balanceWei |-> 0]

IdleAttempt ==
  [op |-> "none", pc |-> "idle", prompt |-> "", author |-> "", points |-> Str(0),
   chainId |-> Undefined, timestamp |-> 0, promptHash |-> "",
   encodedPoints |-> [type |-> "none", value |-> <<>>],
   i |-> 0, error |-> NoError, code |-> "", authorization |-> NoAuthorization,
   nonce |-> NoNonce, requestForSigning |-> NoEnvelope, outcomes |-> <<>>,
   delays |-> <<>>, trace |-> <<>>, result |-> NoResult]

InitWithPending(retryConfigs, ledgerCounts, pendingCounts) ==
  /\ server = "boot"
  /\ retryAttempts \in retryConfigs
  /\ nonces = <<>>
  /\ initPc = [c \in ChainIds |-> "idle"]
  /\ seeds = <<>>
  /\ allocLog = [c \in ChainIds |-> <<>>]
  /\ ledgerCount \in [ChainIds -> ledgerCounts]
  /\ pendingCount \in [ChainIds -> pendingCounts]
  /\ minted = [c \in ChainIds |-> {}]
  /\ forwarderNonce = [u \in Authors |-> 0]
  /\ att = [a \in Attempts |-> IdleAttempt]
  /\ gatewayLog = [a \in Attempts |-> <<>>]
  /\ ledgerLog = [a \in Attempts |-> <<>>]

\* The wallet has nothing in flight when the process starts
InitWith(retryConfigs, ledgerCounts) == InitWithPending(retryConfigs, ledgerCounts, {0})

\* --------------------------------------------------------------- index.ts

\* validateConfig() and promptMiningService.initialize() succeed, then
\* app.listen: the server accepts requests.  Neither call touches the nonce map.
startup ==
  /\ server = "boot"
  /\ server' = "listening"
  /\ UNCHANGED <<retryAttempts, nonceVars, ledgerVars, att, gatewayLog, ledgerLog>>

\* promptMiningService.initialize() throws (initializeBlockchain fails):
\* process.exit(1)
startupFails ==
  /\ server = "boot"
  /\ server' = "exited"
  /\ UNCHANGED <<retryAttempts, nonceVars, ledgerVars, att, gatewayLog, ledgerLog>>

\* ----------------------------------------------------------- nonceManager.ts

\* Map.set on the nonce map
MapSet(map, key, value) ==
  [k \in DOMAIN map \cup {key} |-> IF k = key THEN value ELSE map[k]]

\* initializeNonces(chains): chains.map starts every chain's async callback,
\* each suspended in provider.getTransactionCount
initializeNonces ==
  /\ server # "exited"
  /\ \A c \in ChainIds : initPc[c] = "idle"
  /\ initPc' = [c \in ChainIds |-> "awaiting"]
  /\ UNCHANGED <<server, retryAttempts, nonces, seeds, allocLog, ledgerVars, att,
                 gatewayLog, ledgerLog>>

\* provider.getTransactionCount(walletAddress, blockTag): 'latest' counts the
\* mined transactions, 'pending' adds those submitted and not yet mined
getTransactionCount(c, blockTag) ==
  IF blockTag = "pending" THEN ledgerCount[c] + pendingCount[c] ELSE ledgerCount[c]

\* The value the try branch stores: the count the ledger returned
seededNonce(count) == count

\* One chain's callback resumes: getTransactionCount resolved (nonces.set to the
\* count) or rejected (the catch branch: nonces.set to 0)
initializeNonces_resumeNoFallback(c, resolved) ==
  /\ initPc[c] = "awaiting"
  /\ IF resolved
     THEN /\ nonces' = MapSet(nonces, c, seededNonce(getTransactionCount(c, "latest")))
          /\ seeds' = MapSet(seeds, c, seededNonce(getTransactionCount(c, "latest")))
     ELSE UNCHANGED <<nonces, seeds>>
  /\ initPc' = [initPc EXCEPT ![c] = "done"]
  /\ UNCHANGED <<server, retryAttempts, allocLog, ledgerVars, att, gatewayLog, ledgerLog>>

initializeNonces_resume(c, resolved) ==
  /\ initPc[c] = "awaiting"
  /\ LET value == IF resolved THEN seededNonce(getTransactionCount(c, "latest")) ELSE 0 IN
       /\ nonces' = MapSet(nonces, c, value)
       /\ seeds' = MapSet(seeds, c, value)
  /\ initPc' = [initPc EXCEPT ![c] = "done"]
  /\ UNCHANGED <<server, retryAttempts, allocLog, ledgerVars, att, gatewayLog, ledgerLog>>

\* getAndIncrementNonce: the value stored after an allocation
nextNonceNoIncrement(currentNonce) == currentNonce

nextNonce(currentNonce) == currentNonce + 1

\* getAndIncrementNonce(chainId): throws when nonces.get(chainId) is undefined,
\* else returns the stored value and stores its successor; synchronous, so the
\* read and the write are one step of the event loop
getAndIncrementNonceDefaultZero(chainId) ==
  IF chainId \notin DOMAIN nonces
  THEN [threw |-> FALSE, nonce |-> 0, map |-> MapSet(nonces, chainId, 1)]
  ELSE [threw |-> FALSE, nonce |-> nonces[chainId],
        map |-> [nonces EXCEPT ![chainId] = nextNonce(nonces[chainId])]]

getAndIncrementNonce(chainId) ==
  IF chainId \notin DOMAIN nonces
  THEN [threw |-> TRUE, nonce |-> NoNonce, map |-> nonces]
  ELSE [threw |-> FALSE, nonce |-> nonces[chainId],
        map |-> [nonces EXCEPT ![chainId] = nextNonce(nonces[chainId])]]

\* getCurrentNonce(chainId); NoNonce stands for undefined
getCurrentNonce(chainId) ==
  IF chainId \in DOMAIN nonces THEN nonces[chainId] ELSE NoNonce

\* ------------------------------------------------------------ attempt helpers

Step(rec, name) == [rec EXCEPT !.trace = Append(@, name)]

\* The call rejects with this error; nothing after the throwing statement runs
Throw(rec, code) == [rec EXCEPT !.pc = "failed", !.code = code]

BodyOf(rec) ==
  requestBody(rec.promptHash, rec.author, rec.points, PromptMinerAddress, rec.timestamp)

\* retryWithBackoff's loop test: i < attempts
loopRunsAtLeastOnce(i, attempts) == i = 0 \/ i < attempts

loopRuns(i, attempts) == i < attempts

\* A transaction handed to the ledger
Tx(fn, chain, author, prompt, actionData, actionSignature, request, gasLimit, nonce) ==
  [fn |-> fn, chain |-> chain, author |-> author, prompt |-> prompt, contentURI |-> "",
   actionData |-> actionData, actionSignature |-> actionSignature,
   request |-> request, gasLimit |-> gasLimit, nonce |-> nonce]

\* requestMintAuthorization up to its first await: build the body, enter
\* retryWithBackoff and post the body; with no loop iteration the function falls
\* through to 'Retry logic failed unexpectedly', which handlePZeroApiError wraps
requestMintAuthorization(a, rec) ==
  IF loopRuns(0, retryAttempts)
  THEN /\ att' = [att EXCEPT ![a] = [Step(rec, "authorize") EXCEPT !.pc = "auth_wait", !.i = 0]]
       /\ gatewayLog' = [gatewayLog EXCEPT ![a] = Append(@, BodyOf(rec))]
  ELSE /\ att' = [att EXCEPT ![a] = Throw(rec, handlePZeroApiError(RetryLogicError))]
       /\ UNCHANGED gatewayLog

\* blockchainService.executeMint up to its first await: resolve the chain (throws
\* outside the try), then inside the try take a nonce and call contract.mint;
\* a throw of getAndIncrementNonce lands in the catch and is rethrown as
\* 'Mint transaction failed: ...'
executeMint(a, rec, chainId) ==
  IF initializeBlockchain(chainId) = "null"
  THEN /\ att' = [att EXCEPT ![a] = Throw(rec, "Chain not found in configuration")]
       /\ UNCHANGED <<nonces, allocLog, ledgerLog>>
  ELSE LET c == actualChainId(chainId)
           r == getAndIncrementNonce(c) IN
    IF r.threw
    THEN /\ att' = [att EXCEPT ![a] =
                      Throw(rec, "Mint transaction failed: Nonce not initialized")]
         /\ UNCHANGED <<nonces, allocLog, ledgerLog>>
    ELSE /\ nonces' = r.map
         /\ allocLog' = [allocLog EXCEPT ![c] = Append(@, r.nonce)]
         /\ ledgerLog' = [ledgerLog EXCEPT ![a] = Append(@,
              Tx("mint(address,bytes32,string,bytes,bytes)",
                 initializeBlockchain(chainId), rec.author,
                 rec.promptHash, rec.encodedPoints, rec.authorization.signature,
                 NoEnvelope, DefaultGas, r.nonce))]
         /\ att' = [att EXCEPT ![a] =
              [Step(Step(rec, "allocate"), "submit") EXCEPT
                 !.pc = "submit_wait", !.nonce = r.nonce]]

\* blockchainService.mintPromptToBlockchain (single-chain service) up to its
\* first await: encode the points (throws outside the try), then contract.mint
\* with the prompt hash, empty metadata, the encoded points and the signature
mintPromptToBlockchain(a, rec) ==
  LET encoded == encodeActivityPoints(rec.points) IN
  IF encoded.type = "throw"
  THEN /\ att' = [att EXCEPT ![a] = Throw(rec, "SyntaxError: Cannot convert to a BigInt")]
       /\ UNCHANGED ledgerLog
  ELSE /\ ledgerLog' = [ledgerLog EXCEPT ![a] = Append(@,
            Tx("mint", ConfiguredChainId, "", hashPrompt(rec.prompt), encoded,
               rec.authorization.signature, NoEnvelope, DefaultGas, NoNonce))]
       /\ att' = [att EXCEPT ![a] =
            [Step(rec, "submit") EXCEPT !.pc = "submit_wait", !.encodedPoints = encoded]]

\* ------------------------------------------------- promptMiningService calls

NewAttempt(op, prompt, author, points, timestamp) ==
  [IdleAttempt EXCEPT !.op = op, !.prompt = prompt, !.author = author,
     !.points = points, !.timestamp = timestamp]

\* mintPrompt(prompt, author, activityPoints): hash, then request authorization
mintPrompt(a, prompt, author, points, timestamp) ==
  /\ server = "listening"
  /\ att[a].pc = "idle"
  /\ LET rec == [Step(NewAttempt("mintPrompt", prompt, author, points, timestamp), "hash")
                   EXCEPT !.promptHash = hashPrompt(prompt)] IN
       requestMintAuthorization(a, rec)
  /\ UNCHANGED <<server, retryAttempts, nonceVars, ledgerVars, ledgerLog>>

\* mintPromptForUser(prompt, author, activityPoints): hash, then ask the ledger
\* whether the digest is minted (checkPromptMinted on the default chain)
mintPromptForUser(a, prompt, author, points, timestamp) ==
  /\ server = "listening"
  /\ att[a].pc = "idle"
  /\ att' = [att EXCEPT ![a] =
       [Step(Step(NewAttempt("mintPromptForUser", prompt, author, points, timestamp),
                  "hash"), "check")
          EXCEPT !.promptHash = hashPrompt(prompt), !.pc = "check_wait"]]
  /\ UNCHANGED <<server, retryAttempts, nonceVars, ledgerVars, gatewayLog, ledgerLog>>

\* checkPromptMinted(promptHash) on the default chain: what isPromptMinted answers
checkPromptMintedNever(promptHash) == FALSE

checkPromptMinted(promptHash) == promptHash \in minted[getDefaultChainConfig]

\* checkPromptMinted resumes: isPromptMinted answered, or the query failed.
\* Minted: throw.  Not minted: encode the points, then request authorization.
mintPromptForUser_checkedDeduplicating(a, queryOk) ==
  /\ att[a].pc = "check_wait"
  /\ LET rec == att[a]
         encoded == encodeActivityPoints(rec.points)
         inFlight == \E b \in Attempts \ {a} :
                       /\ att[b].promptHash = rec.promptHash
                       /\ att[b].pc \in {"auth_wait", "backoff", "submit_wait", "receipt_wait"} IN
       IF ~queryOk
       THEN /\ att' = [att EXCEPT ![a] = Throw(rec, "Failed to query prompt status")]
            /\ UNCHANGED gatewayLog
       ELSE IF checkPromptMinted(rec.promptHash) \/ inFlight
       THEN /\ att' = [att EXCEPT ![a] = Throw(rec, "Prompt has already been minted")]
            /\ UNCHANGED gatewayLog
       ELSE IF encoded.type = "throw"
       THEN /\ att' = [att EXCEPT ![a] =
                         Throw(rec, "SyntaxError: Cannot convert to a BigInt")]
            /\ UNCHANGED gatewayLog
       ELSE requestMintAuthorization(a,
              [Step(rec, "encode") EXCEPT !.encodedPoints = encoded])
  /\ UNCHANGED <<server, retryAttempts, nonceVars, ledgerVars, ledgerLog>>

mintPromptForUser_checked(a, queryOk) ==
  /\ att[a].pc = "check_wait"
  /\ LET rec == att[a]
         encoded == encodeActivityPoints(rec.points) IN
       IF ~queryOk
       THEN /\ att' = [att EXCEPT ![a] = Throw(rec, "Failed to query prompt status")]
            /\ UNCHANGED gatewayLog
       ELSE IF checkPromptMinted(rec.promptHash)
       THEN /\ att' = [att EXCEPT ![a] = Throw(rec, "Prompt has already been minted")]
            /\ UNCHANGED gatewayLog
       ELSE IF encoded.type = "throw"
       THEN /\ att' = [att EXCEPT ![a] =
                         Throw(rec, "SyntaxError: Cannot convert to a BigInt")]
            /\ UNCHANGED gatewayLog
       ELSE requestMintAuthorization(a,
              [Step(rec, "encode") EXCEPT !.encodedPoints = encoded])
  /\ UNCHANGED <<server, retryAttempts, nonceVars, ledgerVars, ledgerLog>>

\* getSignableMintData(prompt, author, activityPoints, gas, deadline): hash,
\* encode the points, then request authorization
getSignableMintData(a, prompt, author, points, timestamp) ==
  /\ server = "listening"
  /\ att[a].pc = "idle"
  /\ LET rec == [Step(NewAttempt("getSignableMintData", prompt, author, points, timestamp),
                      "hash")
                   EXCEPT !.promptHash = hashPrompt(prompt)]
         encoded == encodeActivityPoints(points) IN
       IF encoded.type = "throw"
       THEN /\ att' = [att EXCEPT ![a] =
                         Throw(rec, "SyntaxError: Cannot convert to a BigInt")]
            /\ UNCHANGED gatewayLog
       ELSE requestMintAuthorization(a,
              [Step(rec, "encode") EXCEPT !.encodedPoints = encoded])
  /\ UNCHANGED <<server, retryAttempts, nonceVars, ledgerVars, ledgerLog>>

\* ------------------------------------------------------ the Gateway answers

\* pzeroClient.post resolved inside retryWithBackoff: requestMintAuthorization
\* returns response.data.authorization and the caller runs on to its next await
gatewayAuthorizes(a) ==
  /\ att[a].pc = "auth_wait"
  /\ LET rec == [Step(att[a], "authorized") EXCEPT
                   !.authorization = Authorization(BodyOf(att[a]), Len(gatewayLog[a])),
                   !.outcomes = Append(@, "ok")] IN
       CASE rec.op = "mintPrompt" ->
              /\ mintPromptToBlockchain(a, rec)
              /\ UNCHANGED <<nonces, allocLog>>
         [] rec.op = "mintPromptForUser" ->
              executeMint(a, rec, Undefined)
         [] rec.op = "authorizePromptMint" ->
              \* encode the points (BigInt may throw), build the call data, return
              /\ LET encoded == encodeActivityPoints(rec.points) IN
                   IF encoded.type = "throw"
                   THEN att' = [att EXCEPT ![a] =
                                  Throw(rec, "SyntaxError: Cannot convert to a BigInt")]
                   ELSE att' = [att EXCEPT ![a] =
                                  [Step(Step(rec, "encode"), "return") EXCEPT
                                     !.pc = "done", !.encodedPoints = encoded]]
              /\ UNCHANGED <<nonces, allocLog, ledgerLog>>
         [] OTHER ->
              \* getSignableMintData: getTypedDataForMetaTxMint awaits the SDK
              /\ att' = [att EXCEPT ![a] = [rec EXCEPT !.pc = "typed_wait"]]
              /\ UNCHANGED <<nonces, allocLog, ledgerLog>>
  /\ UNCHANGED <<server, retryAttempts, initPc, seeds, ledgerVars, gatewayLog>>

\* pzeroClient.post rejected inside retryWithBackoff: the catch block either
\* rethrows (to requestMintAuthorization's catch, which classifies the error
\* with handlePZeroApiError) or sleeps before the next iteration
gatewayFailsKeepsFirst(a, outcome) ==
  /\ att[a].pc = "auth_wait"
  /\ outcome # "ok"
  /\ LET error == IF att[a].error = NoError THEN AxiosError(outcome) ELSE att[a].error
         rec == [att[a] EXCEPT !.error = error, !.outcomes = Append(@, outcome)] IN
       IF isClientError(error) \/ isLastAttempt(rec.i, retryAttempts)
       THEN att' = [att EXCEPT ![a] = Throw(rec, handlePZeroApiError(error))]
       ELSE att' = [att EXCEPT ![a] =
              [rec EXCEPT !.pc = "backoff", !.delays = Append(@, backoffDelay(rec.i))]]
  /\ UNCHANGED <<server, retryAttempts, nonceVars, ledgerVars, gatewayLog, ledgerLog>>

gatewayFails(a, outcome) ==
  /\ att[a].pc = "auth_wait"
  /\ outcome # "ok"
  /\ LET error == AxiosError(outcome)
         rec == [att[a] EXCEPT !.error = error, !.outcomes = Append(@, outcome)] IN
       IF isClientError(error) \/ isLastAttempt(rec.i, retryAttempts)
       THEN att' = [att EXCEPT ![a] = Throw(rec, handlePZeroApiError(error))]
       ELSE att' = [att EXCEPT ![a] =
              [rec EXCEPT !.pc = "backoff", !.delays = Append(@, backoffDelay(rec.i))]]
  /\ UNCHANGED <<server, retryAttempts, nonceVars, ledgerVars, gatewayLog, ledgerLog>>

\* The backoff timer fires: i++, the loop test, and the next post
backoffElapsed(a) ==
  /\ att[a].pc = "backoff"
  /\ LET rec == [att[a] EXCEPT !.i = @ + 1] IN
       IF loopRuns(rec.i, retryAttempts)
       THEN /\ att' = [att EXCEPT ![a] = [rec EXCEPT !.pc = "auth_wait"]]
            /\ gatewayLog' = [gatewayLog EXCEPT ![a] = Append(@, BodyOf(rec))]
       ELSE /\ att' = [att EXCEPT ![a] = Throw(rec, handlePZeroApiError(RetryLogicError))]
            /\ UNCHANGED gatewayLog
  /\ UNCHANGED <<server, retryAttempts, nonceVars, ledgerVars, ledgerLog>>

\* --------------------------------------------------- meta-transaction relay

\* getTypedDataForMetaTxMint resumes: the SDK read the forwarder's nonce of the
\* sender and built the request to sign; getSignableMintData returns it
typedDataReturnedAllocating(a) ==
  /\ att[a].pc = "typed_wait"
  /\ att' = [att EXCEPT ![a] = [Step(att[a], "return") EXCEPT
       !.pc = "signable",
       !.requestForSigning =
          [from |-> att[a].author, to |-> PromptMinerAddress, value |-> 0,
           gas |-> DefaultGas, nonce |-> forwarderNonce[att[a].author],
           deadline |-> att[a].timestamp + 3600,
           data |-> <<att[a].promptHash, att[a].encodedPoints,
                      att[a].authorization.signature>>]]]
  /\ forwarderNonce' = [forwarderNonce EXCEPT ![att[a].author] = @ + 1]
  /\ UNCHANGED <<server, retryAttempts, nonceVars, ledgerCount, pendingCount, minted,
                 gatewayLog, ledgerLog>>

typedDataReturnedTakingNonce(a) ==
  /\ att[a].pc = "typed_wait"
  /\ att' = [att EXCEPT ![a] = [Step(att[a], "return") EXCEPT
       !.pc = "signable",
       !.requestForSigning =
          [from |-> att[a].author, to |-> PromptMinerAddress, value |-> 0,
           gas |-> DefaultGas, nonce |-> forwarderNonce[att[a].author],
           deadline |-> att[a].timestamp + 3600,
           data |-> <<att[a].promptHash, att[a].encodedPoints,
                      att[a].authorization.signature>>]]]
  /\ nonces' = [c \in DOMAIN nonces |->
                  IF c = getDefaultChainConfig THEN nextNonce(nonces[c]) ELSE nonces[c]]
  /\ UNCHANGED <<server, retryAttempts, initPc, seeds, allocLog, ledgerVars, gatewayLog,
                 ledgerLog>>

typedDataReturned(a) ==
  /\ att[a].pc = "typed_wait"
  /\ att' = [att EXCEPT ![a] = [Step(att[a], "return") EXCEPT
       !.pc = "signable",
       !.requestForSigning =
          [from |-> att[a].author, to |-> PromptMinerAddress, value |-> 0,
           gas |-> DefaultGas, nonce |-> forwarderNonce[att[a].author],
           deadline |-> att[a].timestamp + 3600,
           data |-> <<att[a].promptHash, att[a].encodedPoints,
                      att[a].authorization.signature>>]]]
  /\ UNCHANGED <<server, retryAttempts, nonceVars, ledgerVars, gatewayLog, ledgerLog>>

\* The SDK call rejects (the ledger query failed)
typedDataFails(a) ==
  /\ att[a].pc = "typed_wait"
  /\ att' = [att EXCEPT ![a] = Throw(att[a], "Failed to build typed data")]
  /\ UNCHANGED <<server, retryAttempts, nonceVars, ledgerVars, gatewayLog, ledgerLog>>

\* executeMetaTxMint(requestForSigning, forwardSignature, chainId) with the
\* request Phase A returned: resolve the chain, then await sdkBuildRequest
executeMetaTxMint(a, chainId) ==
  /\ server = "listening"
  /\ att[a].pc = "signable"
  /\ LET rec == [att[a] EXCEPT !.op = "executeMetaTxMint", !.chainId = chainId] IN
       IF initializeBlockchain(chainId) = "null"
       THEN att' = [att EXCEPT ![a] = Throw(rec, "Chain not found in configuration")]
       ELSE att' = [att EXCEPT ![a] = [rec EXCEPT !.pc = "build_wait"]]
  /\ UNCHANGED <<server, retryAttempts, nonceVars, ledgerVars, gatewayLog, ledgerLog>>

\* sdkBuildRequest resumed: inside the try take a nonce for the chain and call
\* forwarder.execute with gasLimit request.gas + 50000 and that nonce
executeMetaTxMint_builtNoBuffer(a) ==
  /\ att[a].pc = "build_wait"
  /\ LET rec == att[a]
         c == actualChainId(rec.chainId)
         r == getAndIncrementNonce(c) IN
       IF r.threw
       THEN /\ att' = [att EXCEPT ![a] =
                 Throw(rec, "Meta-transaction execution failed: Nonce not initialized")]
            /\ UNCHANGED <<nonces, allocLog, ledgerLog>>
       ELSE /\ nonces' = r.map
            /\ allocLog' = [allocLog EXCEPT ![c] = Append(@, r.nonce)]
            /\ ledgerLog' = [ledgerLog EXCEPT ![a] = Append(@,
                 Tx("execute", initializeBlockchain(rec.chainId), "", "",
                    rec.encodedPoints, <<>>,
                    rec.requestForSigning, rec.requestForSigning.gas, r.nonce))]
            /\ att' = [att EXCEPT ![a] =
                 [Step(Step(rec, "allocate"), "submit") EXCEPT
                    !.pc = "submit_wait", !.nonce = r.nonce]]
  /\ UNCHANGED <<server, retryAttempts, initPc, seeds, ledgerVars, gatewayLog>>

executeMetaTxMint_built(a) ==
  /\ att[a].pc = "build_wait"
  /\ LET rec == att[a]
         c == actualChainId(rec.chainId)
         r == getAndIncrementNonce(c) IN
       IF r.threw
       THEN /\ att' = [att EXCEPT ![a] =
                 Throw(rec, "Meta-transaction execution failed: Nonce not initialized")]
            /\ UNCHANGED <<nonces, allocLog, ledgerLog>>
       ELSE /\ nonces' = r.map
            /\ allocLog' = [allocLog EXCEPT ![c] = Append(@, r.nonce)]
            /\ ledgerLog' = [ledgerLog EXCEPT ![a] = Append(@,
                 Tx("execute", initializeBlockchain(rec.chainId), "", "",
                    rec.encodedPoints, <<>>,
                    rec.requestForSigning,
                    rec.requestForSigning.gas + ForwarderGasBuffer, r.nonce))]
            /\ att' = [att EXCEPT ![a] =
                 [Step(Step(rec, "allocate"), "submit") EXCEPT
                    !.pc = "submit_wait", !.nonce = r.nonce]]
  /\ UNCHANGED <<server, retryAttempts, initPc, seeds, ledgerVars, gatewayLog>>

\* blockchainService.executeMint(author, promptHash, '', encodedPoints,
\* actionSignature, chainId) called directly with a chain id
executeMintCall(a, author, prompt, chainId) ==
  /\ server = "listening"
  /\ att[a].pc = "idle"
  /\ executeMint(a,
       [NewAttempt("executeMint", prompt, author, Str(0), 0) EXCEPT
          !.promptHash = hashPrompt(prompt), !.chainId = chainId,
          !.encodedPoints = encodeActivityPoints(Str(0))],
       chainId)
  /\ UNCHANGED <<server, retryAttempts, initPc, seeds, ledgerVars, gatewayLog>>

\* -------------------------------------------------------- the ledger answers

LedgerReasons ==
  {"INSUFFICIENT_FUNDS", "AUTHORIZATION_EXPIRED", "INVALID_SIGNATURE", "nonce too low",
   "ERC2771ForwarderExpiredRequest", "ERC2771ForwarderInvalidSigner",
   "ERC2771UntrustfulTarget"}

\* String.prototype.includes
includes(message, needle) ==
  \E i \in 1..(Len(message) - Len(needle) + 1) :
    SubSeq(message, i, i + Len(needle) - 1) = needle

\* The catch blocks of mintPromptToBlockchain, executeMint and executeMetaTxMint:
\* the tests run in the code's order on the rejection's code or message
translateErrorNoTargetBranch(op, reason) ==
  IF op = "executeMetaTxMint" THEN
    IF includes(reason, "ERC2771ForwarderExpiredRequest") THEN "Meta-transaction expired"
    ELSE IF includes(reason, "ERC2771ForwarderInvalidSigner") THEN "Invalid signature"
    ELSE "Meta-transaction execution failed"
  ELSE
    IF reason = "INSUFFICIENT_FUNDS" THEN "Insufficient funds for gas"
    ELSE IF includes(reason, "AUTHORIZATION_EXPIRED") THEN "PZERO authorization expired"
    ELSE IF includes(reason, "INVALID_SIGNATURE") THEN "Invalid PZERO signature"
    ELSE IF op = "mintPrompt" THEN "Blockchain transaction failed"
    ELSE "Mint transaction failed"

translateError(op, reason) ==
  IF op = "executeMetaTxMint" THEN
    IF includes(reason, "ERC2771ForwarderExpiredRequest") THEN "Meta-transaction expired"
    ELSE IF includes(reason, "ERC2771ForwarderInvalidSigner") THEN "Invalid signature"
    ELSE IF includes(reason, "ERC2771UntrustfulTarget")
      THEN "Target contract does not trust this forwarder"
    ELSE "Meta-transaction execution failed"
  ELSE
    IF reason = "INSUFFICIENT_FUNDS" THEN "Insufficient funds for gas"
    ELSE IF includes(reason, "AUTHORIZATION_EXPIRED") THEN "PZERO authorization expired"
    ELSE IF includes(reason, "INVALID_SIGNATURE") THEN "Invalid PZERO signature"
    ELSE IF op = "mintPrompt" THEN "Blockchain transaction failed"
    ELSE "Mint transaction failed"

\* contract.mint / forwarder.execute resolved with a pending transaction; the
\* function now awaits tx.wait()
ledgerAcceptsReturnsEarly(a) ==
  /\ att[a].pc = "submit_wait"
  /\ att' = [att EXCEPT ![a] = [Step(att[a], "return") EXCEPT !.pc = "done"]]
  /\ UNCHANGED <<server, retryAttempts, nonceVars, ledgerVars, gatewayLog, ledgerLog>>

ledgerAccepts(a) ==
  /\ att[a].pc = "submit_wait"
  /\ att' = [att EXCEPT ![a].pc = "receipt_wait"]
  /\ UNCHANGED <<server, retryAttempts, nonceVars, ledgerVars, gatewayLog, ledgerLog>>

\* contract.mint / forwarder.execute rejected, or tx.wait() rejected: the catch
\* block rethrows a translated error; nothing is resubmitted
ledgerRejectsReleasingNonce(a, reason) ==
  /\ att[a].pc \in {"submit_wait", "receipt_wait"}
  /\ att' = [att EXCEPT ![a] = Throw(att[a], translateError(att[a].op, reason))]
  /\ nonces' = IF att[a].nonce # NoNonce
               THEN [nonces EXCEPT ![ledgerLog[a][Len(ledgerLog[a])].chain] = @ - 1]
               ELSE nonces
  /\ UNCHANGED <<server, retryAttempts, initPc, seeds, allocLog, ledgerVars, gatewayLog,
                 ledgerLog>>

ledgerRejectsResubmits(a, reason) ==
  /\ att[a].pc \in {"submit_wait", "receipt_wait"}
  /\ att' = [att EXCEPT ![a].pc = "submit_wait"]
  /\ ledgerLog' = [ledgerLog EXCEPT ![a] = Append(@, ledgerLog[a][Len(ledgerLog[a])])]
  /\ UNCHANGED <<server, retryAttempts, nonceVars, ledgerVars, gatewayLog>>

ledgerRejects(a, reason) ==
  /\ att[a].pc \in {"submit_wait", "receipt_wait"}
  /\ att' = [att EXCEPT ![a] = Throw(att[a], translateError(att[a].op, reason))]
  /\ UNCHANGED <<server, retryAttempts, nonceVars, ledgerVars, gatewayLog, ledgerLog>>

LastTx(a) == ledgerLog[a][Len(ledgerLog[a])]

\* tx.wait() resolved with the mined receipt: the ledger recorded the mint (and
\* the forwarder used the sender's nonce); the call returns its result
ledgerMines(a) ==
  /\ att[a].pc = "receipt_wait"
  /\ LET tx == LastTx(a)
         digest == IF tx.fn = "execute" THEN tx.request.data[1] ELSE tx.prompt IN
       /\ digest \notin minted[tx.chain]
       /\ tx.fn = "execute" => tx.request.nonce = forwarderNonce[tx.request.from]
       /\ minted' = [minted EXCEPT ![tx.chain] = @ \cup {digest}]
       /\ forwarderNonce' =
            IF tx.fn = "execute"
            THEN [forwarderNonce EXCEPT ![tx.request.from] = @ + 1]
            ELSE forwarderNonce
  /\ att' = [att EXCEPT ![a] = [Step(Step(att[a], "receipt"), "return") EXCEPT !.pc = "done"]]
  /\ UNCHANGED <<server, retryAttempts, nonceVars, ledgerCount, pendingCount, gatewayLog,
                 ledgerLog>>

\* ------------------------------------------------------------ specification

Pipelines == 1..NumPipelines

SpecPrompts == {"p1", "p2"}
SpecAuthors == {"u1"}
SpecPoints == {Str(10)}
SpecTimes == {1}
SpecOutcomes == {"402", "503"}
SpecReasons == {"INSUFFICIENT_FUNDS"}

\* The whole pipeline: startup, seeding, and concurrent calls of the three
\* service flows, the relay included
Init == InitWith({PipelineRetryAttempts}, {MaxLedgerCount})

Next ==
  \/ startup
  \/ startupFails
  \/ initializeNonces
  \/ \E c \in ChainIds, resolved \in BOOLEAN : initializeNonces_resume(c, resolved)
  \/ \E a \in Pipelines, p \in SpecPrompts, u \in SpecAuthors, pts \in SpecPoints,
        t \in SpecTimes :
       \/ mintPrompt(a, p, u, pts, t)
       \/ mintPromptForUser(a, p, u, pts, t)
       \/ getSignableMintData(a, p, u, pts, t)
  \/ \E a \in Pipelines, queryOk \in BOOLEAN : mintPromptForUser_checked(a, queryOk)
  \/ \E a \in Pipelines : gatewayAuthorizes(a)
  \/ \E a \in Pipelines, outcome \in SpecOutcomes : gatewayFails(a, outcome)
  \/ \E a \in Pipelines : backoffElapsed(a)
  \/ \E a \in Pipelines : typedDataReturned(a)
  \/ \E a \in Pipelines : typedDataFails(a)
  \/ \E a \in Pipelines : executeMetaTxMint(a, Undefined)
  \/ \E a \in Pipelines : executeMetaTxMint_built(a)
  \/ \E a \in Pipelines : ledgerAccepts(a)
  \/ \E a \in Pipelines, reason \in SpecReasons : ledgerRejects(a, reason)
  \/ \E a \in Pipelines : ledgerMines(a)

Spec == Init /\ [][Next]_vars

\* The authorization client alone: one mintPrompt call, every configured attempt
\* count and every answer the Gateway can give
InitAuth == InitWith(0..MaxRetryAttempts, {0})

NextAuth ==
  \/ startup
  \/ \E p \in SpecPrompts, u \in Authors, pts \in SpecPoints, t \in Times :
       mintPrompt(1, p, u, pts, t)
  \/ gatewayAuthorizes(1)
  \/ \E outcome \in GatewayOutcomes : gatewayFails(1, outcome)
  \/ backoffElapsed(1)
  \/ ledgerAccepts(1)
  \/ \E reason \in LedgerReasons : ledgerRejects(1, reason)
  \/ ledgerMines(1)

SpecAuth == InitAuth /\ [][NextAuth]_vars

\* The nonce manager alone: seeding from any ledger counts, and concurrent
\* blockchainService.executeMint calls on any chain id
InitNonce == InitWith({PipelineRetryAttempts}, 0..MaxLedgerCount)

NextNonce ==
  \/ startup
  \/ initializeNonces
  \/ \E c \in ChainIds, resolved \in BOOLEAN : initializeNonces_resume(c, resolved)
  \/ \E a \in Attempts, chainId \in ChainArgs : executeMintCall(a, "u1", "p1", chainId)
  \/ \E a \in Attempts, reason \in SpecReasons : ledgerRejects(a, reason)

SpecNonce == InitNonce /\ [][NextNonce]_vars

\* ------------------------------------------------------------------ claims

Last(seq) == seq[Len(seq)]

Allocated(a) == att[a].nonce # NoNonce

\* C1: for every seeded chain the values getAndIncrementNonce returned are
\* seed, seed+1, ..., seed+N-1 in this order (no duplicate, no gap, strictly
\* increasing), and two pipelines on one chain never hold the same number.
C1_AllocationsDistinctNoGap ==
  /\ \A c \in ChainIds : \A k \in 1..Len(allocLog[c]) :
       /\ c \in DOMAIN seeds
       /\ allocLog[c][k] = seeds[c] + k - 1
  /\ \A a, b \in Attempts :
       (a # b /\ Allocated(a) /\ Allocated(b) /\ Last(ledgerLog[a]).chain = Last(ledgerLog[b]).chain)
         => att[a].nonce # att[b].nonce

\* C1 witness: every pipeline holds a number of the same chain while all of
\* them are still waiting on the ledger
C1_Witness ==
  \E c \in ChainIds :
    /\ Len(allocLog[c]) = NumAttempts
    /\ \A a \in Attempts : att[a].pc = "submit_wait" /\ Last(ledgerLog[a]).chain = c

\* C2 (as claimed): an authorization request whose first answer is HTTP 401, 402
\* or 403 sends exactly one request to the Gateway: it is never sent again, and
\* once the call has failed its error is the classification of that answer.
C2_FatalAnswerSendsOneRequest ==
  \A a \in Attempts :
    (Len(att[a].outcomes) >= 1 /\ att[a].outcomes[1] \in FatalOutcomes)
      => /\ Len(gatewayLog[a]) = 1
         /\ att[a].pc = "failed" =>
              att[a].code = handlePZeroApiError(AxiosError(att[a].outcomes[1]))

AllTransient(outcomes) ==
  \A k \in 1..Len(outcomes) : outcomes[k] \in TransientOutcomes

RequestFields ==
  {"promptHash", "author", "activityPoints", "signerAddress", "chainId", "timestamp"}

\* C4: every body posted to the Gateway has exactly the six fields digest,
\* beneficiary, reward, signer context, chain id and timestamp, each the value
\* of the attempt that sent it; no field holds prompt text, and two bodies of
\* attempts that agree on the six values are equal whatever their prompts.
C4_GatewayBodyHasNoPrompt ==
  /\ \A a \in Attempts : \A k \in 1..Len(gatewayLog[a]) :
       LET m == gatewayLog[a][k] IN
         /\ DOMAIN m = RequestFields
         /\ m.promptHash \notin Prompts
         /\ m.author \notin Prompts
         /\ m.signerAddress \notin Prompts
         /\ m.chainId \notin Prompts
         /\ m.promptHash = att[a].promptHash
         /\ m.author = att[a].author
         /\ m.activityPoints = att[a].points
         /\ m.signerAddress = PromptMinerAddress
         /\ m.chainId = ConfiguredChainId
         /\ m.timestamp = att[a].timestamp
  /\ \A a, b \in Attempts : \A k \in 1..Len(gatewayLog[a]) : \A l \in 1..Len(gatewayLog[b]) :
       (/\ att[a].promptHash = att[b].promptHash
        /\ att[a].author = att[b].author
        /\ att[a].points = att[b].points
        /\ att[a].timestamp = att[b].timestamp)
         => gatewayLog[a][k] = gatewayLog[b][l]

\* C4 witness: two attempts of different modes and different prompts have both
\* posted to the Gateway
C4_Witness ==
  \E a, b \in Attempts :
    /\ att[a].prompt # att[b].prompt
    /\ att[a].op = "mintPrompt" /\ att[b].op = "mintPromptForUser"
    /\ gatewayLog[a] # <<>> /\ gatewayLog[b] # <<>>

IsPrefix(s, t) == Len(s) <= Len(t) /\ \A k \in 1..Len(s) : s[k] = t[k]

FixedOrder(op) ==
  IF op = "mintPrompt"
  THEN <<"hash", "authorize", "authorized", "submit", "receipt", "return">>
  ELSE <<"hash", "check", "encode", "authorize", "authorized", "allocate", "submit",
         "receipt", "return">>

\* C5: a mintPrompt or mintPromptForUser attempt takes its steps in the fixed
\* order; a transaction is handed to the ledger only after the attempt's own
\* authorization request was answered with success, and carries that
\* authorization; the attempt returns its result only once the ledger has mined
\* the transaction.
C5_FixedStepOrder ==
  \A a \in Attempts :
    att[a].op \in {"mintPrompt", "mintPromptForUser"} =>
      /\ IsPrefix(att[a].trace, FixedOrder(att[a].op))
      /\ ledgerLog[a] # <<>> =>
           /\ gatewayLog[a] # <<>>
           /\ att[a].outcomes # <<>>
           /\ Last(att[a].outcomes) = "ok"
           /\ Last(ledgerLog[a]).actionSignature
                = <<"sig", att[a].promptHash, att[a].author, Len(gatewayLog[a])>>
      /\ att[a].pc = "done" =>
           /\ Len(ledgerLog[a]) = 1
           /\ Last(ledgerLog[a]).prompt \in minted[Last(ledgerLog[a]).chain]

\* C5 witness: one attempt has returned its result while another, of the other
\* mode, is between its submit and its receipt
C5_Witness ==
  \E a, b \in Attempts :
    /\ att[a].op = "mintPrompt" /\ att[a].pc = "done"
    /\ att[b].op = "mintPromptForUser" /\ att[b].pc = "receipt_wait"

AuthorizationFailed(a) ==
  /\ att[a].outcomes # <<>>
  /\ Last(att[a].outcomes) # "ok"
  /\ att[a].pc \notin {"auth_wait", "backoff"}

C7_AlreadyMintedFailsFast ==
  [][\A a \in Attempts :
       (/\ att[a].pc = "check_wait"
        /\ att[a].promptHash \in minted[getDefaultChainConfig]
        /\ att'[a].pc # "check_wait")
         => /\ att'[a].pc = "failed"
            /\ att'[a].code \in {"Prompt has already been minted",
                                 "Failed to query prompt status"}
            /\ gatewayLog' = gatewayLog
            /\ ledgerLog' = ledgerLog
            /\ nonces' = nonces
            /\ allocLog' = allocLog]_vars

\* C7 witness: an operator-signed attempt failed with the already-minted error
\* while the default chain's counter was seeded
C7_Witness ==
  \E a \in Attempts :
    /\ att[a].op = "mintPromptForUser"
    /\ att[a].code = "Prompt has already been minted"
    /\ getDefaultChainConfig \in DOMAIN nonces

\* The step of attempt a that calls getAndIncrementNonce
AllocatingStep(a) ==
  \/ att[a].pc = "build_wait" /\ att'[a].pc # "build_wait"
  \/ /\ att[a].op = "mintPromptForUser"
     /\ att[a].pc = "auth_wait"
     /\ att'[a].authorization # NoAuthorization

\* C8: a relay or operator-signed submission that calls getAndIncrementNonce for
\* a chain with no seeded counter fails with the not-initialized error, leaves
\* the nonce map unchanged and hands no transaction to the ledger.
C8_AllocateBeforeSeedFails ==
  [][\A a \in Attempts :
       (AllocatingStep(a) /\ actualChainId(att[a].chainId) \notin DOMAIN nonces)
         => /\ att'[a].pc = "failed"
            /\ att'[a].code \in {"Mint transaction failed: Nonce not initialized",
                                 "Meta-transaction execution failed: Nonce not initialized"}
            /\ nonces' = nonces
            /\ allocLog' = allocLog
            /\ ledgerLog' = ledgerLog]_vars

\* C8 witness: a relay failed with the not-initialized error while
\* initializeNonces is still awaiting the ledger for the chain
C8_Witness ==
  \E a \in Attempts :
    /\ att[a].code = "Meta-transaction execution failed: Nonce not initialized"
    /\ initPc[getDefaultChainConfig] = "awaiting"
    /\ ledgerLog[a] = <<>>

\* C9 (as claimed): once the server accepts requests every configured chain has
\* a counter, seeded from the ledger's transaction count.
C9_SeededWhenListening ==
  server = "listening" =>
    \A c \in ChainIds : c \in DOMAIN nonces /\ seeds[c] = ledgerCount[c]

Abs(x) == IF x < 0 THEN -x ELSE x

HasEnvelope(a) == att[a].requestForSigning.nonce # NoNonce

SameInputs(a, b) ==
  /\ att[a].prompt = att[b].prompt
  /\ att[a].author = att[b].author
  /\ att[a].points = att[b].points

MinedRelays(u) ==
  Cardinality({c \in Attempts : /\ att[c].op = "executeMetaTxMint"
                                /\ att[c].pc = "done"
                                /\ att[c].requestForSigning.from = u})

LiveAttempt == 1

submitAnswered(a) ==
  \/ ledgerAccepts(a)
  \/ \E reason \in SpecReasons : att[a].pc = "submit_wait" /\ ledgerRejects(a, reason)

postAnswered(a) ==
  \/ gatewayAuthorizes(a)
  \/ \E outcome \in SpecOutcomes : gatewayFails(a, outcome)

queryAnswered(a) == \E queryOk \in BOOLEAN : mintPromptForUser_checked(a, queryOk)

InitLive == InitWith({PipelineRetryAttempts}, {0})

NextLive ==
  \/ startup
  \/ initializeNonces
  \/ \E c \in ChainIds, resolved \in BOOLEAN : initializeNonces_resume(c, resolved)
  \/ \E p \in SpecPrompts, u \in Authors, pts \in SpecPoints, t \in Times :
       \/ mintPrompt(LiveAttempt, p, u, pts, t)
       \/ mintPromptForUser(LiveAttempt, p, u, pts, t)
  \/ queryAnswered(LiveAttempt)
  \/ postAnswered(LiveAttempt)
  \/ backoffElapsed(LiveAttempt)
  \/ ledgerAccepts(LiveAttempt)
  \/ \E reason \in SpecReasons : ledgerRejects(LiveAttempt, reason)
  \/ ledgerMines(LiveAttempt)

SpecLive ==
  /\ InitLive
  /\ [][NextLive]_vars
  /\ WF_vars(queryAnswered(LiveAttempt))
  /\ WF_vars(postAnswered(LiveAttempt))
  /\ WF_vars(backoffElapsed(LiveAttempt))
  /\ WF_vars(submitAnswered(LiveAttempt))

Terminated(a) == att[a].pc \in {"done", "failed"}

\* C11 (as claimed): every mint attempt that has started eventually ends,
\* confirmed or failed, also when its submitted transaction is never mined.
C11_EveryAttemptTerminates ==
  (att[LiveAttempt].op # "none") ~> Terminated(LiveAttempt)

\* C12: every step of a getSignableMintData call, whether the call goes on,
\* returns the request to sign or fails, leaves the nonce map, the allocation
\* log, every attempt's submitted transactions and the ledger unchanged; such a
\* call holds no sequence number and has submitted nothing, and a returned
\* request is the one built from the call's own digest, reward and authorization.
C12_PhaseAIsReadOnly ==
  [][\A a \in Attempts :
       (att'[a] # att[a] /\ att'[a].op = "getSignableMintData")
         => /\ nonces' = nonces
            /\ allocLog' = allocLog
            /\ ledgerLog' = ledgerLog
            /\ ledgerVars' = ledgerVars
            /\ att'[a].nonce = NoNonce
            /\ ledgerLog'[a] = <<>>
            /\ att'[a].pc = "signable" =>
                 /\ att'[a].requestForSigning.from = att'[a].author
                 /\ att'[a].requestForSigning.to = PromptMinerAddress
                 /\ att'[a].requestForSigning.data =
                      <<att'[a].promptHash, att'[a].encodedPoints,
                        att'[a].authorization.signature>>]_vars

\* C12 witness: with the default chain's counter seeded and untouched, one
\* Phase A call has returned its request and another has failed
C12_Witness ==
  \E a, b \in Attempts :
    /\ att[a].op = "getSignableMintData" /\ att[a].pc = "signable"
    /\ att[b].op = "getSignableMintData" /\ att[b].pc = "failed"
    /\ getDefaultChainConfig \in DOMAIN nonces
    /\ nonces[getDefaultChainConfig] = seeds[getDefaultChainConfig]

\* C13: the step of executeMetaTxMint that submits takes exactly one number
\* from the counter of the chain it submits on and hands the ledger exactly one
\* forwarder.execute call, carrying the request Phase A returned, that number
\* as its nonce and the request's gas plus 50000 as its gas limit; a relay
\* attempt never has more than one transaction.
C13_RelayTakesOneNonceAndAddsGas ==
  [][\A a \in Attempts :
       /\ att'[a].op = "executeMetaTxMint" => Len(ledgerLog'[a]) <= 1
       /\ (att[a].pc = "build_wait" /\ att'[a].pc = "submit_wait") =>
            LET c == actualChainId(att[a].chainId)
                tx == ledgerLog'[a][1] IN
              /\ c \in DOMAIN nonces
              /\ nonces' = [nonces EXCEPT ![c] = nonces[c] + 1]
              /\ allocLog' = [allocLog EXCEPT ![c] = Append(allocLog[c], nonces[c])]
              /\ Len(ledgerLog'[a]) = 1
              /\ \A b \in Attempts \ {a} : ledgerLog'[b] = ledgerLog[b]
              /\ tx.fn = "execute"
              /\ tx.chain = c
              /\ tx.request = att[a].requestForSigning
              /\ tx.nonce = nonces[c]
              /\ att'[a].nonce = nonces[c]
              /\ tx.gasLimit = att[a].requestForSigning.gas + 50000]_vars

\* C13 witness: two relays have each submitted their forwarder call, with
\* consecutive numbers of the default chain's counter
C13_Witness ==
  \E a, b \in Attempts :
    /\ att[a].op = "executeMetaTxMint" /\ att[b].op = "executeMetaTxMint"
    /\ Len(ledgerLog[a]) = 1 /\ Len(ledgerLog[b]) = 1
    /\ ledgerLog[b][1].nonce = ledgerLog[a][1].nonce + 1
    /\ ledgerLog[a][1].gasLimit = DefaultGas + ForwarderGasBuffer

\* ------------------------------------------------------ error classification

\* The errors a catch block around a pzeroClient call can receive: an AxiosError
\* with any code and any response status (or none), or another Error
ErrorCodes == {"ECONNABORTED", "ETIMEDOUT", "ERR_NETWORK", "ERR_BAD_RESPONSE"}
ErrorStatuses == {NoStatus, 401, 402, 403, 404, 429, 500, 503}
ErrorInputs ==
  [name : {"AxiosError", "Error"}, code : ErrorCodes, status : ErrorStatuses,
   statusCode : {NoStatus}]

\* getQuotaStatus() up to its await: pzeroClient.get('/quota')
getQuotaStatus(a) ==
  /\ server = "listening"
  /\ att[a].pc = "idle"
  /\ att' = [att EXCEPT ![a] = [IdleAttempt EXCEPT !.op = "getQuotaStatus", !.pc = "quota_wait"]]
  /\ UNCHANGED <<server, retryAttempts, nonceVars, ledgerVars, gatewayLog, ledgerLog>>

\* The get resolved: return response.data.quota
getQuotaStatus_resolved(a) ==
  /\ att[a].pc = "quota_wait"
  /\ att' = [att EXCEPT ![a].pc = "done"]
  /\ UNCHANGED <<server, retryAttempts, nonceVars, ledgerVars, gatewayLog, ledgerLog>>

\* The get rejected: the catch block hands the error to handlePZeroApiError
getQuotaStatus_rejected(a, error) ==
  /\ att[a].pc = "quota_wait"
  /\ att' = [att EXCEPT ![a] =
       Throw([att[a] EXCEPT !.error = error], handlePZeroApiError(error))]
  /\ UNCHANGED <<server, retryAttempts, nonceVars, ledgerVars, gatewayLog, ledgerLog>>

InitClassify == InitWith({PipelineRetryAttempts}, {0})

NextClassify ==
  \/ startup
  \/ \E a \in Pipelines : getQuotaStatus(a)
  \/ \E a \in Pipelines : getQuotaStatus_resolved(a)
  \/ \E a \in Pipelines, error \in ErrorInputs : getQuotaStatus_rejected(a, error)

SpecClassify == InitClassify /\ [][NextClassify]_vars

IsTimeout(error) == error.code \in {"ECONNABORTED", "ETIMEDOUT"}

\* C14: a failed Gateway call (an AxiosError) is classified by one total rule:
\* a transport timeout gives the timeout class whatever else the error holds;
\* otherwise no response gives unavailable; otherwise 401, 402, 403, 429 and
\* 503 give their own classes and any other status the generic Gateway error.
C14_ClassificationRule ==
  \A a \in Attempts :
    (att[a].op = "getQuotaStatus" /\ att[a].pc = "failed"
       /\ att[a].error.name = "AxiosError") =>
      LET e == att[a].error
          c == att[a].code IN
        /\ c \in {"PZERO_TIMEOUT", "PZERO_UNAVAILABLE", "INVALID_API_KEY", "QUOTA_EXCEEDED",
                  "INVALID_TIER", "RATE_LIMITED", "PZERO_ERROR"}
        /\ IsTimeout(e) => c = "PZERO_TIMEOUT"
        /\ (~IsTimeout(e) /\ e.status = NoStatus) => c = "PZERO_UNAVAILABLE"
        /\ (~IsTimeout(e) /\ e.status = 401) => c = "INVALID_API_KEY"
        /\ (~IsTimeout(e) /\ e.status = 402) => c = "QUOTA_EXCEEDED"
        /\ (~IsTimeout(e) /\ e.status = 403) => c = "INVALID_TIER"
        /\ (~IsTimeout(e) /\ e.status = 429) => c = "RATE_LIMITED"
        /\ (~IsTimeout(e) /\ e.status = 503) => c = "PZERO_UNAVAILABLE"
        /\ (~IsTimeout(e) /\ e.status \in {404, 500}) => c = "PZERO_ERROR"

\* C14 witness: a timeout with no response was classified as a timeout, and an
\* HTTP 404 as the generic Gateway error
C14_Witness ==
  \E a, b \in Attempts :
    /\ att[a].op = "getQuotaStatus" /\ att[a].error.name = "AxiosError"
    /\ att[a].error.code = "ECONNABORTED" /\ att[a].error.status = NoStatus
    /\ att[a].code = "PZERO_TIMEOUT"
    /\ att[b].op = "getQuotaStatus" /\ att[b].error.name = "AxiosError"
    /\ att[b].error.code = "ERR_BAD_RESPONSE" /\ att[b].error.status = 404
    /\ att[b].code = "PZERO_ERROR"

\* The class the Gateway's answer belongs to
ClassOf(outcome) ==
  CASE outcome \in {"ECONNABORTED", "ETIMEDOUT"} -> "PZERO_TIMEOUT"
    [] outcome \in {"noresponse", "503"} -> "PZERO_UNAVAILABLE"
    [] outcome = "429" -> "RATE_LIMITED"
    [] OTHER -> "PZERO_ERROR"

\* C15: when every configured attempt of requestMintAuthorization failed with a
\* transient error, the call fails with the class of the last attempt's
\* failure, after exactly the configured number of requests.
C15_ExhaustedRetriesRaiseLastError ==
  \A a \in Attempts :
    (/\ retryAttempts >= 1
     /\ Len(att[a].outcomes) = retryAttempts
     /\ AllTransient(att[a].outcomes)) =>
      /\ att[a].pc = "failed"
      /\ att[a].code = ClassOf(Last(att[a].outcomes))
      /\ Len(gatewayLog[a]) = retryAttempts
      /\ ledgerLog[a] = <<>>

\* C15 witness: attempts failed with different classes, first rate-limited and
\* last timed out, and the call failed as a timeout
C15_Witness ==
  \E a \in Attempts :
    /\ retryAttempts >= 2
    /\ Len(att[a].outcomes) = retryAttempts
    /\ att[a].outcomes[1] = "429"
    /\ Last(att[a].outcomes) = "ETIMEDOUT"
    /\ att[a].code = "PZERO_TIMEOUT"

\* C16 (as claimed): the transaction a mintPrompt attempt hands to the ledger
\* embeds the full prompt text, the beneficiary address, the encoded reward
\* and the authorization returned to that attempt.
C16_DirectSubmitEmbedsContentAndBeneficiary ==
  \A a \in Attempts :
    (att[a].op = "mintPrompt" /\ ledgerLog[a] # <<>>) =>
      LET tx == Last(ledgerLog[a]) IN
        /\ tx.prompt = att[a].prompt
        /\ tx.author = att[a].author
        /\ tx.actionData = encodeActivityPoints(att[a].points)
        /\ tx.actionSignature = att[a].authorization.signature

\* ---------------------------------------------------------------- submission

\* The three mint flows with the Gateway authorizing every request and the
\* ledger rejecting a submission, or its receipt wait, for any reason
SubmitReasons == LedgerReasons \cup {"PromptAlreadyMinted"}

InitSubmit == InitWith({PipelineRetryAttempts}, {0})

NextSubmit ==
  \/ startup
  \/ initializeNonces
  \/ \E c \in ChainIds, resolved \in BOOLEAN : initializeNonces_resume(c, resolved)
  \/ \E a \in Pipelines, p \in SpecPrompts, u \in SpecAuthors, pts \in SpecPoints,
        t \in SpecTimes :
       \/ mintPrompt(a, p, u, pts, t)
       \/ mintPromptForUser(a, p, u, pts, t)
       \/ getSignableMintData(a, p, u, pts, t)
  \/ \E a \in Pipelines, queryOk \in BOOLEAN : mintPromptForUser_checked(a, queryOk)
  \/ \E a \in Pipelines : gatewayAuthorizes(a)
  \/ \E a \in Pipelines : typedDataReturned(a)
  \/ \E a \in Pipelines : executeMetaTxMint(a, Undefined)
  \/ \E a \in Pipelines : executeMetaTxMint_built(a)
  \/ \E a \in Pipelines : ledgerAccepts(a)
  \/ \E a \in Pipelines, reason \in SubmitReasons : ledgerRejects(a, reason)
  \/ \E a \in Pipelines : ledgerMines(a)

SpecSubmit == InitSubmit /\ [][NextSubmit]_vars

SubmitErrors ==
  {translateError(op, reason) :
     op \in {"mintPrompt", "mintPromptForUser", "executeMetaTxMint"},
     reason \in SubmitReasons}

\* C17: an attempt hands the ledger at most one transaction; when the submit or
\* the receipt wait is rejected the attempt fails with the translated reason and
\* nothing is submitted in that step; a failed attempt never changes again; an
\* attempt that returned a mint result has submitted exactly once.
C17_SubmitAtMostOnce ==
  [][\A a \in Attempts :
       /\ Len(ledgerLog'[a]) <= 1
       /\ (att[a].pc \in {"submit_wait", "receipt_wait"} /\ att'[a] # att[a]
             /\ att'[a].pc \notin {"receipt_wait", "done"}) =>
            /\ att'[a].pc = "failed"
            /\ att'[a].code \in SubmitErrors
            /\ ledgerLog' = ledgerLog
       /\ att[a].pc = "failed" => (att'[a] = att[a] /\ ledgerLog'[a] = ledgerLog[a])
       /\ (att'[a].pc = "done"
             /\ att'[a].op \in {"mintPrompt", "mintPromptForUser", "executeMetaTxMint"}) =>
            Len(ledgerLog'[a]) = 1]_vars

\* C17 witness: one attempt failed because its submission was rejected as a
\* duplicate sequence number, another returned its result; each has one
\* transaction
C17_Witness ==
  \E a, b \in Attempts :
    /\ att[a].pc = "failed" /\ Len(ledgerLog[a]) = 1
    /\ att[a].code = translateError(att[a].op, "nonce too low")
    /\ att[b].pc = "done" /\ Len(ledgerLog[b]) = 1

\* ---------------------------------------------------------------- controller

EmptyPrompt == ""
InvalidAddress == "0xinvalid"

\* utils/crypto.isValidAddress: ethers.isAddress
isValidAddress(address) == address \in Authors

\* The controller's test of activityPoints: !isNaN(parseFloat(activityPoints))
isNumeric(points) == points.isNumber

\* promptController.authorizePromptMint (POST /api/prompts/authorize): validate
\* prompt, author and activityPoints, answering 400 on the first that fails;
\* else promptMiningService.authorizePromptMint: hash the prompt and request the
\* authorization (the points are encoded only after it arrives)
authorizePromptMint(a, prompt, author, points, timestamp) ==
  /\ server = "listening"
  /\ att[a].pc = "idle"
  /\ LET rec == NewAttempt("authorizePromptMint", prompt, author, points, timestamp) IN
       IF prompt = EmptyPrompt
       THEN /\ att' = [att EXCEPT ![a] = Throw(rec, "INVALID_PROMPT")]
            /\ UNCHANGED gatewayLog
       ELSE IF ~isValidAddress(author)
       THEN /\ att' = [att EXCEPT ![a] = Throw(rec, "INVALID_AUTHOR")]
            /\ UNCHANGED gatewayLog
       ELSE IF ~isNumeric(points)
       THEN /\ att' = [att EXCEPT ![a] = Throw(rec, "INVALID_ACTIVITY_POINTS")]
            /\ UNCHANGED gatewayLog
       ELSE requestMintAuthorization(a,
              [Step(rec, "hash") EXCEPT !.promptHash = hashPrompt(prompt)])
  /\ UNCHANGED <<server, retryAttempts, nonceVars, ledgerVars, ledgerLog>>

ValidatePrompts == {"p1", EmptyPrompt}
ValidateAuthors == {"u1", InvalidAddress}
ValidatePoints == {Str(10), Str(-1), NotANumber, Fractional}

InitValidate == InitWith({PipelineRetryAttempts}, {0})

NextValidate ==
  \/ startup
  \/ \E a \in Pipelines, p \in ValidatePrompts, u \in ValidateAuthors,
        pts \in ValidatePoints, t \in SpecTimes :
       authorizePromptMint(a, p, u, pts, t)
  \/ \E a \in Pipelines : gatewayAuthorizes(a)
  \/ \E a \in Pipelines, outcome \in SpecOutcomes : gatewayFails(a, outcome)
  \/ \E a \in Pipelines : backoffElapsed(a)

SpecValidate == InitValidate /\ [][NextValidate]_vars

ValidationCodes == {"INVALID_PROMPT", "INVALID_AUTHOR", "INVALID_ACTIVITY_POINTS"}

\* C18 (as claimed): an authorize request whose prompt is empty, whose author
\* is not an address or whose reward is not an integer is rejected with a
\* validation error, and no request of it reaches the Gateway or the ledger.
C18_MalformedRejectedBeforeNetwork ==
  \A a \in Attempts :
    (/\ att[a].op = "authorizePromptMint"
     /\ \/ att[a].prompt = EmptyPrompt
        \/ ~isValidAddress(att[a].author)
        \/ ~att[a].points.isInteger) =>
      /\ att[a].pc = "failed"
      /\ att[a].code \in ValidationCodes
      /\ gatewayLog[a] = <<>>
      /\ ledgerLog[a] = <<>>

\* ------------------------------------------------------------- errorHandler

PZeroErrorCodes ==
  {"PZERO_TIMEOUT", "PZERO_UNAVAILABLE", "INVALID_API_KEY", "QUOTA_EXCEEDED",
   "INVALID_TIER", "RATE_LIMITED", "PZERO_ERROR"}

\* The error object a failed attempt rejected with: a PZeroError from
\* handlePZeroApiError, or the plain Error the services throw
thrownError(rec) ==
  IF rec.code \in PZeroErrorCodes
  THEN [name |-> "PZeroError", code |-> rec.code, message |-> rec.code]
  ELSE [name |-> "Error", code |-> Undefined, message |-> rec.code]

\* errorHandler: the error code of the envelope {success: false, error: {code, message}}
errorHandler(err) ==
  IF err.name = "ApiError" THEN err.code
  ELSE IF err.name = "PZeroError"
       THEN (IF err.code = Undefined THEN "PZERO_ERROR" ELSE err.code)
  ELSE IF err.name = "ValidationError" THEN "VALIDATION_ERROR"
  ELSE IF err.name = "UnauthorizedError" THEN "UNAUTHORIZED"
  ELSE IF includes(err.message, "INSUFFICIENT_FUNDS") THEN "INSUFFICIENT_FUNDS"
  ELSE IF includes(err.message, "NONCE_EXPIRED") THEN "NONCE_EXPIRED"
  ELSE "INTERNAL_SERVER_ERROR"

\* asyncHandler passes the rejection to errorHandler, which answers the request
respond(a) ==
  /\ att[a].pc = "failed"
  /\ att' = [att EXCEPT ![a] =
       [att[a] EXCEPT !.pc = "responded", !.code = errorHandler(thrownError(att[a]))]]
  /\ UNCHANGED <<server, retryAttempts, nonceVars, ledgerVars, gatewayLog, ledgerLog>>

\* The rejections whose message the catch block of the flow replaces by a fixed
\* text (a message passed through from the ledger client is not modelled)
translates(op, reason) ==
  IF op = "executeMetaTxMint"
  THEN reason \in {"ERC2771ForwarderExpiredRequest", "ERC2771ForwarderInvalidSigner",
                   "ERC2771UntrustfulTarget"}
  ELSE reason \in {"INSUFFICIENT_FUNDS", "AUTHORIZATION_EXPIRED", "INVALID_SIGNATURE"}

ledgerRejectsTranslated(a, reason) ==
  /\ translates(att[a].op, reason)
  /\ ledgerRejects(a, reason)

RespondOutcomes == {"401", "402", "503"}

InitRespond == InitWith({PipelineRetryAttempts}, {0})

NextRespond ==
  \/ startup
  \/ initializeNonces
  \/ \E c \in ChainIds, resolved \in BOOLEAN : initializeNonces_resume(c, resolved)
  \/ \E a \in Pipelines, p \in SpecPrompts, u \in SpecAuthors, pts \in SpecPoints,
        t \in SpecTimes :
       \/ mintPrompt(a, p, u, pts, t)
       \/ getSignableMintData(a, p, u, pts, t)
  \/ \E a \in Pipelines : gatewayAuthorizes(a)
  \/ \E a \in Pipelines, outcome \in RespondOutcomes : gatewayFails(a, outcome)
  \/ \E a \in Pipelines : backoffElapsed(a)
  \/ \E a \in Pipelines : typedDataReturned(a)
  \/ \E a \in Pipelines : executeMetaTxMint(a, Undefined)
  \/ \E a \in Pipelines : executeMetaTxMint_built(a)
  \/ \E a \in Pipelines : ledgerAccepts(a)
  \/ \E a \in Pipelines, reason \in LedgerReasons : ledgerRejectsTranslated(a, reason)
  \/ \E a \in Pipelines : respond(a)

SpecRespond == InitRespond /\ [][NextRespond]_vars

\* C19 (as claimed): the envelope that answers a failed mint request never
\* carries the generic code: Gateway classes, ledger-submission reasons and
\* meta-transaction reasons each have a code of their own.
C19_FailureHasOwnCode ==
  [][\A a \in Attempts :
       (att[a].pc = "failed" /\ att'[a].pc = "responded")
         => att'[a].code # "INTERNAL_SERVER_ERROR"]_vars

\* ------------------------------------------------- read-only operations

\* String.prototype.startsWith('0x')
startsWith0x(text) == Len(text) >= 2 /\ SubSeq(text, 1, 2) = "0x"

\* getPromptStatus(promptOrHash) up to its await: input that starts with '0x'
\* is used as the digest, anything else is hashed; then checkPromptMinted
\* queries isPromptMinted on the default chain
getPromptStatusViaAuthorization(a, promptOrHash) ==
  /\ server = "listening"
  /\ att[a].pc = "idle"
  /\ LET rec == [NewAttempt("getPromptStatus", promptOrHash, "", Str(0), 0)
                   EXCEPT !.promptHash = IF startsWith0x(promptOrHash)
                                         THEN promptOrHash
                                         ELSE hashPrompt(promptOrHash)] IN
       /\ att' = [att EXCEPT ![a] = [Step(rec, "query") EXCEPT !.pc = "status_wait"]]
       /\ gatewayLog' = [gatewayLog EXCEPT ![a] = Append(@, BodyOf(rec))]
  /\ UNCHANGED <<server, retryAttempts, nonceVars, ledgerVars, ledgerLog>>

getPromptStatus(a, promptOrHash) ==
  /\ server = "listening"
  /\ att[a].pc = "idle"
  /\ LET digest == IF startsWith0x(promptOrHash)
                   THEN promptOrHash
                   ELSE hashPrompt(promptOrHash)
         called == NewAttempt("getPromptStatus", promptOrHash, "", Str(0), 0)
         rec == IF startsWith0x(promptOrHash) THEN called ELSE Step(called, "hash") IN
       att' = [att EXCEPT ![a] =
                 [Step(rec, "query") EXCEPT !.promptHash = digest, !.pc = "status_wait"]]
  /\ UNCHANGED <<server, retryAttempts, nonceVars, ledgerVars, gatewayLog, ledgerLog>>

\* isPromptMinted answered: return {promptHash, isMinted}; or the query failed:
\* checkPromptMinted rethrows 'Failed to query prompt status: ...'
getPromptStatus_resume(a, queryOk) ==
  /\ att[a].pc = "status_wait"
  /\ att' = [att EXCEPT ![a] =
       IF queryOk
       THEN [Step(att[a], "return") EXCEPT
               !.result = [NoResult EXCEPT !.isMinted = checkPromptMinted(att[a].promptHash)],
               !.pc = "done"]
       ELSE Throw(att[a], "Failed to query prompt status")]
  /\ UNCHANGED <<server, retryAttempts, nonceVars, ledgerVars, gatewayLog, ledgerLog>>

\* The activity-points token contract lives outside the repository: its
\* balanceOf answers are drawn from this set
Balances == {0, 10}
TokenAddress == "0xtoken"

\* getUserBalance(tokenAddress, address) up to its await:
\* getActivityPointsBalance connects the token contract on the default chain
\* and queries balanceOf and symbol
getUserBalance(a, tokenAddress, address) ==
  /\ server = "listening"
  /\ att[a].pc = "idle"
  /\ att' = [att EXCEPT ![a] =
       [Step(NewAttempt("getUserBalance", tokenAddress, address, Str(0), 0), "query")
          EXCEPT !.pc = "balance_wait"]]
  /\ UNCHANGED <<server, retryAttempts, nonceVars, ledgerVars, gatewayLog, ledgerLog>>

\* Both queries answered: return {address, balanceWei, balanceEther, symbol};
\* or one failed: 'Failed to query activity points balance: ...'
getUserBalance_resume(a, queryOk, balance) ==
  /\ att[a].pc = "balance_wait"
  /\ att' = [att EXCEPT ![a] =
       IF queryOk
       THEN [Step(att[a], "return") EXCEPT
               !.result = [NoResult EXCEPT !.balanceWei = balance], !.pc = "done"]
       ELSE Throw(att[a], "Failed to query activity points balance")]
  /\ UNCHANGED <<server, retryAttempts, nonceVars, ledgerVars, gatewayLog, ledgerLog>>

\* Lookups by prompt text and by digest, beside mints that change what the
\* ledger answers and move the nonce allocator
StatusInputs == {"p1", "0xh1"}

InitRead == InitWith({PipelineRetryAttempts}, {0})

NextRead ==
  \/ startup
  \/ initializeNonces
  \/ \E c \in ChainIds, ok \in BOOLEAN : initializeNonces_resume(c, ok)
  \/ \E a \in Pipelines : mintPromptForUser(a, "p1", "u1", Str(10), 1)
  \/ \E a \in Pipelines, queryOk \in BOOLEAN : mintPromptForUser_checked(a, queryOk)
  \/ \E a \in Pipelines : gatewayAuthorizes(a)
  \/ \E a \in Pipelines : ledgerAccepts(a)
  \/ \E a \in Pipelines : ledgerMines(a)
  \/ \E a \in Attempts, input \in StatusInputs : getPromptStatus(a, input)
  \/ \E a \in Attempts, ok \in BOOLEAN : getPromptStatus_resume(a, ok)
  \/ \E a \in Attempts, u \in SpecAuthors : getUserBalance(a, TokenAddress, u)
  \/ \E a \in Attempts, ok \in BOOLEAN, b \in Balances : getUserBalance_resume(a, ok, b)

SpecRead == InitRead /\ [][NextRead]_vars

ReadOps == {"getPromptStatus", "getUserBalance"}

\* A step of a read-only call: the call starts or resumes
ReadStep(a) == att'[a] # att[a] /\ att'[a].op \in ReadOps

\* What a read-only step leaves alone: the nonce allocator, the requests sent
\* to the Gateway, the transactions submitted, the ledger, the other calls
ReadFrame(a) ==
  /\ UNCHANGED <<nonceVars, ledgerVars, gatewayLog, ledgerLog>>
  /\ \A b \in Attempts \ {a} : att'[b] = att[b]

\* C20 as stated: a read-only operation never hashes its input (the digest it
\* queries is the input itself and no hash step runs), sends no request to the
\* Gateway, submits no transaction and leaves the nonce state unchanged; its
\* only steps are ledger queries
C20_ReadOnlyNeverHashes ==
  [][\A a \in Attempts : ReadStep(a) =>
       /\ ReadFrame(a)
       /\ \A k \in 1..Len(att'[a].trace) : att'[a].trace[k] \in {"query", "return"}
       /\ att'[a].op = "getPromptStatus" => att'[a].promptHash = att'[a].prompt]_vars

\* C20 amended: getPromptStatus queries its input unchanged when it starts
\* with '0x' and the hash of its input otherwise; getUserBalance hashes
\* nothing; neither sends a request to the Gateway, submits a transaction or
\* changes the nonce state, and the status returned is what the ledger holds
\* for the queried digest
C20_ReadOnlyHashesOnlyText ==
  [][\A a \in Attempts : ReadStep(a) =>
       /\ ReadFrame(a)
       /\ att'[a].op = "getPromptStatus" =>
            /\ att'[a].promptHash = IF startsWith0x(att'[a].prompt)
                                    THEN att'[a].prompt
                                    ELSE hashPrompt(att'[a].prompt)
            /\ ("hash" \in {att'[a].trace[k] : k \in 1..Len(att'[a].trace)})
                 <=> ~startsWith0x(att'[a].prompt)
            /\ att'[a].pc = "done" =>
                 att'[a].result.isMinted = (att'[a].promptHash \in minted[getDefaultChainConfig])
       /\ att'[a].op = "getUserBalance" =>
            /\ att'[a].promptHash = ""
            /\ \A k \in 1..Len(att'[a].trace) : att'[a].trace[k] \in {"query", "return"}]_vars

\* C20 witness: after a mint took a nonce and was mined, a status lookup by
\* prompt text has hashed its input and answered 'minted', and a balance
\* lookup has returned
C20_Witness ==
  \E a, b \in Attempts :
    /\ att[a].op = "getPromptStatus" /\ att[a].pc = "done"
    /\ ~startsWith0x(att[a].prompt)
    /\ att[a].result.isMinted
    /\ att[b].op = "getUserBalance" /\ att[b].pc = "done"
    /\ \E c \in ChainIds : allocLog[c] # <<>>

\* ------------------------------------------------------------- seeding

\* C21: initializeNonces never fails: when a chain's getTransactionCount
\* rejects the chain's counter is set to 0, when it resolves the counter is
\* set to the count the ledger answered, in both cases the callback completes,
\* and the counters of the other chains are left as they were; once every
\* callback has completed every configured chain has a counter
C21_SeedingFallsBackPerChain ==
  [][/\ \A c \in ChainIds, resolved \in BOOLEAN :
          initializeNonces_resume(c, resolved) =>
            /\ initPc'[c] = "done"
            /\ c \in DOMAIN nonces'
            /\ nonces'[c] = (IF resolved THEN ledgerCount[c] ELSE 0)
            /\ \A d \in ChainIds \ {c} :
                 /\ d \in DOMAIN nonces' <=> d \in DOMAIN nonces
                 /\ d \in DOMAIN nonces => nonces'[d] = nonces[d]
     /\ (\A c \in ChainIds : initPc'[c] = "done") => DOMAIN nonces' = ChainIds]_vars

\* C21 witness: seeding has completed with one chain on the fallback 0 although
\* its ledger count is positive, and another chain on its positive ledger count
C21_Witness ==
  /\ \A c \in ChainIds : initPc[c] = "done"
  /\ \E c, d \in ChainIds :
       /\ ledgerCount[c] > 0 /\ seeds[c] = 0
       /\ ledgerCount[d] > 0 /\ seeds[d] = ledgerCount[d]

\* Seeding while the wallet has transactions in flight
MaxPendingCount == 1

InitSeed ==
  InitWithPending({PipelineRetryAttempts}, 0..MaxLedgerCount, 0..MaxPendingCount)

SpecSeed == InitSeed /\ [][NextNonce]_vars

\* The sequence numbers the wallet's in-flight transactions occupy on a chain
PendingNonces(c) == ledgerCount[c]..(ledgerCount[c] + pendingCount[c] - 1)

\* C22: a chain whose count query resolves is seeded with the ledger's pending
\* sequence number of the wallet, the count that includes the transactions
\* submitted but not yet mined; so the first number allocated on a chain seeded
\* from the ledger is not one an in-flight transaction already uses
C22_SeededWithPendingCount ==
  [][/\ \A c \in ChainIds :
          initializeNonces_resume(c, TRUE) =>
            (c \in DOMAIN nonces' /\ nonces'[c] = ledgerCount[c] + pendingCount[c])
     /\ \A c \in ChainIds :
          (c \in DOMAIN seeds /\ seeds[c] # 0 /\ allocLog[c] = <<>> /\ allocLog'[c] # <<>>)
            => allocLog'[c][1] \notin PendingNonces(c)]_vars

\* ------------------------------------------------------ reward encoding

\* The reader of the payload (the contract's abi.decode of one uint256): the
\* number the big-endian digits spell; -1 stands for 'no reward', the empty
\* payload
NoReward == -1

abiDecodeUint(word) ==
  LET value[k \in 0..Len(word)] ==
        IF k = 0 THEN 0 ELSE value[k - 1] * 16 + word[k] IN
    value[Len(word)]

decodeActivityPoints(encoded) ==
  IF encoded.type = "uint256" THEN abiDecodeUint(encoded.value) ELSE NoReward

\* The integers a reward string can spell, on both sides of zero and of the
\* largest value the word holds
RewardValues == (0 - 3)..(UintMax + 3)

\* A caller encodes one reward string
encodeCall(a, points) ==
  /\ att[a].pc = "idle"
  /\ LET rec == NewAttempt("encodeActivityPoints", "", "", points, 0)
         encoded == encodeActivityPoints(points) IN
       att' = [att EXCEPT ![a] =
                 IF encoded.type = "throw"
                 THEN Throw(rec, "encodeActivityPoints threw")
                 ELSE [Step(rec, "encode") EXCEPT !.encodedPoints = encoded, !.pc = "done"]]
  /\ UNCHANGED <<server, retryAttempts, nonceVars, ledgerVars, gatewayLog, ledgerLog>>

InitEncode == InitWith({PipelineRetryAttempts}, {0})

NextEncode ==
  \E points \in {Str(v) : v \in RewardValues} \cup {NotANumber, Fractional} :
    encodeCall(1, points)

SpecEncode == InitEncode /\ [][NextEncode]_vars

Encoded(a) == att[a].op = "encodeActivityPoints" /\ att[a].pc \in {"done", "failed"}

\* C23 as stated: encoding a non-negative reward value never raises and
\* decoding the payload gives the value back; encoding a negative value does
\* not raise and gives the empty payload
C23_RoundTripEveryValue ==
  \A a \in Attempts :
    (Encoded(a) /\ att[a].points.isInteger) =>
      /\ att[a].pc = "done"
      /\ att[a].points.n >= 0 => /\ att[a].encodedPoints.type = "uint256"
                                 /\ decodeActivityPoints(att[a].encodedPoints) = att[a].points.n
      /\ att[a].points.n < 0 => att[a].encodedPoints.type = "0x"

\* C23 amended: for a value from 0 to the largest the word holds the encoding
\* is a full word and decoding it gives the value back; a larger value makes
\* the encoder raise; a negative value gives the empty payload without raising
C23_RoundTripWithinWord ==
  \A a \in Attempts :
    (Encoded(a) /\ att[a].points.isInteger) =>
      LET v == att[a].points.n IN
        /\ (v >= 0 /\ v <= UintMax) =>
             /\ att[a].pc = "done"
             /\ att[a].encodedPoints.type = "uint256"
             /\ Len(att[a].encodedPoints.value) = WordDigits
             /\ decodeActivityPoints(att[a].encodedPoints) = v
        /\ v > UintMax => att[a].pc = "failed"
        /\ v < 0 => att[a].pc = "done" /\ att[a].encodedPoints.type = "0x"
                      /\ decodeActivityPoints(att[a].encodedPoints) = NoReward

\* C23 witness: a value that needs both digits of the word has been encoded
C23_Witness ==
  /\ Encoded(1) /\ att[1].pc = "done"
  /\ att[1].points.n = UintMax - 1
  /\ att[1].encodedPoints.value[1] # 0

\* ------------------------------------------------ concurrent mint attempts

\* C24: in-flight requests are not deduplicated by digest.  An operator-signed
\* attempt is turned away as already minted only when the ledger holds its
\* digest, whatever other attempts are in flight; an attempt that passes the
\* check posts its own authorization request, and when its authorization
\* arrives it hands its own transaction to the ledger
C24_NoInFlightDeduplication ==
  [][\A a \in Attempts :
       att[a].op = "mintPromptForUser" =>
         /\ (att[a].pc = "check_wait" /\ att'[a].pc # "check_wait") =>
              /\ att'[a].code = "Prompt has already been minted"
                   => att[a].promptHash \in minted[getDefaultChainConfig]
              /\ att'[a].pc # "failed" =>
                   /\ att'[a].pc = "auth_wait"
                   /\ gatewayLog'[a] = Append(gatewayLog[a], BodyOf(att[a]))
         /\ (att[a].pc = "auth_wait" /\ att'[a].pc = "submit_wait") =>
              /\ Len(ledgerLog'[a]) = Len(ledgerLog[a]) + 1
              /\ ledgerLog'[a][Len(ledgerLog'[a])].prompt = att[a].promptHash]_vars

\* C24 witness: two operator-signed attempts for the same content both passed
\* the already-minted check, each posted its own authorization request, and
\* both transactions are with the ledger while neither has been mined
C24_Witness ==
  \E a, b \in Attempts :
    /\ a # b
    /\ att[a].op = "mintPromptForUser" /\ att[b].op = "mintPromptForUser"
    /\ att[a].prompt = att[b].prompt
    /\ att[a].pc \in {"submit_wait", "receipt_wait"}
    /\ att[b].pc \in {"submit_wait", "receipt_wait"}
    /\ gatewayLog[a] # <<>> /\ gatewayLog[b] # <<>>
    /\ ledgerLog[a] # <<>> /\ ledgerLog[b] # <<>>
    /\ ledgerLog[a][1].prompt = ledgerLog[b][1].prompt
    /\ att[a].promptHash \notin minted[getDefaultChainConfig]

\* ------------------------------------------------------- reading the counter

\* A caller reads the counter of a chain: getCurrentNonce(chainId) is
\* synchronous and returns nonces.get(chainId)
getCurrentNonceCallAllocating(a, chainId) ==
  /\ att[a].pc = "idle"
  /\ LET r == getAndIncrementNonceDefaultZero(chainId) IN
       /\ att' = [att EXCEPT ![a] =
            [Step(NewAttempt("getCurrentNonce", "", "", Str(0), 0), "return") EXCEPT
               !.chainId = chainId, !.nonce = r.nonce, !.pc = "done"]]
       /\ nonces' = r.map
  /\ UNCHANGED <<server, retryAttempts, initPc, seeds, allocLog, ledgerVars,
                 gatewayLog, ledgerLog>>

getCurrentNonceCall(a, chainId) ==
  /\ att[a].pc = "idle"
  /\ att' = [att EXCEPT ![a] =
       [Step(NewAttempt("getCurrentNonce", "", "", Str(0), 0), "return") EXCEPT
          !.chainId = chainId, !.nonce = getCurrentNonce(chainId), !.pc = "done"]]
  /\ UNCHANGED <<server, retryAttempts, nonceVars, ledgerVars, gatewayLog, ledgerLog>>

InitPeek == InitWith({PipelineRetryAttempts}, 0..MaxLedgerCount)

NextPeek ==
  \/ startup
  \/ initializeNonces
  \/ \E c \in ChainIds, resolved \in BOOLEAN : initializeNonces_resume(c, resolved)
  \/ \E a \in Attempts, chainId \in ChainArgs : executeMintCall(a, "u1", "p1", chainId)
  \/ \E a \in Attempts, reason \in SpecReasons : ledgerRejects(a, reason)
  \/ \E a \in Attempts, chainId \in ChainIds \cup {UnknownChain} :
       getCurrentNonceCall(a, chainId)

SpecPeek == InitPeek /\ [][NextPeek]_vars

\* C25: a seeded counter changes only through an allocation: the step that
\* changes the counter of a chain adds exactly 1 to it, returns the value it
\* held (the one a read of that chain returned just before) and leaves every
\* other counter alone; a read changes no counter and returns the stored
\* value, undefined for a chain that is not seeded
C25_CounterChangesOnlyByAllocate ==
  [][/\ \A c \in DOMAIN nonces :
          /\ c \in DOMAIN nonces'
          /\ nonces'[c] # nonces[c] =>
               /\ nonces'[c] = nonces[c] + 1
               /\ allocLog'[c] = Append(allocLog[c], getCurrentNonce(c))
               /\ \A d \in DOMAIN nonces \ {c} : nonces'[d] = nonces[d]
     /\ \A c \in ChainIds :
          allocLog'[c] # allocLog[c] =>
            c \in DOMAIN nonces /\ nonces'[c] = nonces[c] + 1
     /\ \A a \in Attempts :
          (att[a].pc = "idle" /\ att'[a].op = "getCurrentNonce") =>
            /\ nonces' = nonces
            /\ allocLog' = allocLog
            /\ att'[a].nonce = (IF att'[a].chainId \in DOMAIN nonces
                                THEN nonces[att'[a].chainId] ELSE NoNonce)]_vars

\* C25 witness: a read of a seeded chain returned the value that the next
\* allocation on that chain then returned, while another seeded chain still
\* holds its positive seed
C25_Witness ==
  \E a, b \in Attempts, c \in ChainIds :
    /\ att[a].op = "getCurrentNonce" /\ att[a].chainId = c /\ att[a].nonce # NoNonce
    /\ att[b].op = "executeMint" /\ att[b].nonce = att[a].nonce
    /\ allocLog[c] = <<att[a].nonce>>
    /\ nonces[c] = att[a].nonce + 1
    /\ \E d \in DOMAIN nonces \ {c} : nonces[d] = seeds[d] /\ ledgerCount[d] > 0

\* ------------------------------------------------------------ backoff

\* C26: the k-th wait of one authorization request lasts 2^(k-1) seconds
\* (1 s before the 2nd attempt, 2 s before the 3rd); every request after the
\* first is preceded by exactly one wait, and no wait follows the last
\* configured attempt
C26_BackoffDoubles ==
  \A a \in Attempts :
    LET delays == att[a].delays IN
      /\ \A k \in 1..Len(delays) : delays[k] = (2 ^ (k - 1)) * 1000
      /\ delays # <<>> => Len(delays) <= retryAttempts - 1
      /\ att[a].pc = "backoff" => Len(delays) = Len(gatewayLog[a])
      /\ (att[a].pc # "backoff" /\ gatewayLog[a] # <<>>)
           => Len(delays) = Len(gatewayLog[a]) - 1
      /\ (att[a].pc = "failed" /\ Len(att[a].outcomes) = retryAttempts
            /\ retryAttempts > 0)
           => Len(delays) = retryAttempts - 1

\* C26 witness: three configured attempts all failed: the request waited 1 s
\* and 2 s and failed after the third answer without a further wait
C26_Witness ==
  \E a \in Attempts :
    /\ retryAttempts = 3
    /\ att[a].pc = "failed"
    /\ Len(att[a].outcomes) = 3
    /\ att[a].delays = <<1000, 2000>>

\* ------------------------------------------------ relay failure translation

\* What the forwarder's rejection says: the revert of an expired deadline, of
\* a signer mismatch, of an untrusted target, and two other failures
ExpiredMessage == "execution reverted: ERC2771ForwarderExpiredRequest(1700000000)"
SignerMessage == "execution reverted: ERC2771ForwarderInvalidSigner(0xsigner, 0xfrom)"
TargetMessage == "execution reverted: ERC2771UntrustfulTarget(0xtarget, 0xforwarder)"
OtherMessages == {"nonce too low", "execution reverted: ERC2771ForwarderMismatchedValue(0, 1)"}
RelayMessages == {ExpiredMessage, SignerMessage, TargetMessage} \cup OtherMessages

InitRelay == InitWith({PipelineRetryAttempts}, {0})

NextRelay ==
  \/ startup
  \/ initializeNonces
  \/ \E c \in ChainIds, resolved \in BOOLEAN : initializeNonces_resume(c, resolved)
  \/ \E a \in Pipelines, p \in SpecPrompts, u \in SpecAuthors, pts \in SpecPoints,
        t \in SpecTimes : getSignableMintData(a, p, u, pts, t)
  \/ \E a \in Pipelines : gatewayAuthorizes(a)
  \/ \E a \in Pipelines : typedDataReturned(a)
  \/ \E a \in Pipelines : executeMetaTxMint(a, Undefined)
  \/ \E a \in Pipelines : executeMetaTxMint_built(a)
  \/ \E a \in Pipelines : ledgerAccepts(a)
  \/ \E a \in Pipelines, message \in RelayMessages : ledgerRejects(a, message)
  \/ \E a \in Pipelines : ledgerMines(a)

SpecRelay == InitRelay /\ [][NextRelay]_vars

\* C27: when the forwarder submission of a relay (or its receipt wait) is
\* rejected, the call fails with the error of the reported reason: expired
\* deadline -> 'Meta-transaction expired', signer mismatch -> 'Invalid
\* signature', untrusted target -> 'Target contract does not trust this
\* forwarder', anything else -> 'Meta-transaction execution failed'; the step
\* submits nothing and takes no further sequence number
C27_RelayFailureTranslated ==
  [][\A a \in Attempts, message \in RelayMessages :
       (att[a].op = "executeMetaTxMint" /\ ledgerRejects(a, message)) =>
         /\ att'[a].pc = "failed"
         /\ message = ExpiredMessage => att'[a].code = "Meta-transaction expired"
         /\ message = SignerMessage => att'[a].code = "Invalid signature"
         /\ message = TargetMessage =>
              att'[a].code = "Target contract does not trust this forwarder"
         /\ message \in OtherMessages =>
              att'[a].code = "Meta-transaction execution failed"
         /\ ledgerLog' = ledgerLog
         /\ nonces' = nonces
         /\ allocLog' = allocLog]_vars

\* C27 witness: two relays were submitted once each and failed, one as
\* untrusted target and one with the generic error
C27_Witness ==
  \E a, b \in Attempts :
    /\ att[a].op = "executeMetaTxMint" /\ att[a].pc = "failed"
    /\ att[a].code = "Target contract does not trust this forwarder"
    /\ Len(ledgerLog[a]) = 1
    /\ att[b].op = "executeMetaTxMint" /\ att[b].pc = "failed"
    /\ att[b].code = "Meta-transaction execution failed"
    /\ Len(ledgerLog[b]) = 1

\* ------------------------------------------------- failed submissions

\* C28: a sequence number taken for a relay or an operator-signed submission
\* that the ledger then rejects is not given back: the rejection leaves every
\* counter as it is, the chain's counter stays above the number, and the
\* number was handed out once only
C28_FailedSubmitKeepsNonce ==
  [][\A a \in Attempts :
       /\ (att[a].nonce # NoNonce /\ att[a].pc \in {"submit_wait", "receipt_wait"}
             /\ att'[a].pc = "failed") =>
            /\ nonces' = nonces
            /\ allocLog' = allocLog
       /\ (att'[a].nonce # NoNonce /\ att'[a].pc = "failed") =>
            LET c == ledgerLog'[a][Len(ledgerLog'[a])].chain IN
              /\ nonces'[c] > att'[a].nonce
              /\ Cardinality({k \in 1..Len(allocLog'[c]) :
                                 allocLog'[c][k] = att'[a].nonce}) = 1]_vars

\* C28 witness: a submission with sequence number n failed at the ledger and
\* another call on the same chain holds n + 1
C28_Witness ==
  \E a, b \in Attempts :
    /\ att[a].pc = "failed" /\ att[a].nonce # NoNonce
    /\ att[b].nonce = att[a].nonce + 1
    /\ ledgerLog[b] # <<>> /\ ledgerLog[a] # <<>>
    /\ ledgerLog[b][1].chain = ledgerLog[a][1].chain
    /\ allocLog[ledgerLog[a][1].chain] = <<att[a].nonce, att[b].nonce>>

\* ------------------------------------------------------- chain of the nonce

\* Operator-signed submissions and relays on any chain argument, with counters
\* that differ between the chains
InitChain == InitWith({PipelineRetryAttempts}, 0..MaxLedgerCount)

NextChain ==
  \/ startup
  \/ initializeNonces
  \/ \E c \in ChainIds, resolved \in BOOLEAN : initializeNonces_resume(c, resolved)
  \/ \E a \in Pipelines, chainId \in ChainArgs : executeMintCall(a, "u1", "p1", chainId)
  \/ \E a \in Pipelines, p \in {"p1"}, u \in SpecAuthors, pts \in SpecPoints :
       getSignableMintData(a, p, u, pts, 1)
  \/ \E a \in Pipelines : gatewayAuthorizes(a)
  \/ \E a \in Pipelines : typedDataReturned(a)
  \/ \E a \in Pipelines, chainId \in ChainArgs : executeMetaTxMint(a, chainId)
  \/ \E a \in Pipelines : executeMetaTxMint_built(a)
  \/ \E a \in Pipelines, reason \in SpecReasons : ledgerRejects(a, reason)

SpecChain == InitChain /\ [][NextChain]_vars

\* C29: the step that hands a relay or an operator-signed transaction to the
\* ledger submits it on the chain the call names (the first configured chain
\* when it names none) with the number that chain's counter held, and advances
\* that counter only; a call naming an unconfigured chain fails and changes no
\* counter and submits nothing
C29_NonceFromSubmittedChain ==
  [][\A a \in Attempts :
       /\ Len(ledgerLog'[a]) > Len(ledgerLog[a]) =>
            LET tx == ledgerLog'[a][Len(ledgerLog'[a])]
                named == att'[a].chainId IN
              /\ tx.chain = (IF named = Undefined THEN Chains[1] ELSE named)
              /\ tx.chain \in DOMAIN nonces
              /\ tx.nonce = nonces[tx.chain]
              /\ allocLog'[tx.chain] = Append(allocLog[tx.chain], tx.nonce)
              /\ nonces'[tx.chain] = nonces[tx.chain] + 1
              /\ \A d \in DOMAIN nonces \ {tx.chain} :
                   nonces'[d] = nonces[d] /\ allocLog'[d] = allocLog[d]
       /\ (att'[a] # att[a] /\ att'[a].chainId \notin ChainIds \cup {Undefined}) =>
            /\ att'[a].pc = "failed"
            /\ nonces' = nonces
            /\ allocLog' = allocLog
            /\ ledgerLog' = ledgerLog]_vars

\* C29 witness: with different counters on the two chains, a relay naming the
\* second chain and an operator-signed mint naming no chain are each with the
\* ledger on their chain with that chain's number
C29_Witness ==
  \E a, b \in Attempts :
    /\ DOMAIN seeds = ChainIds
    /\ seeds[Chains[1]] # seeds[Chains[2]]
    /\ att[a].op = "executeMetaTxMint" /\ att[a].chainId = Chains[2]
    /\ ledgerLog[a] # <<>> /\ ledgerLog[a][1].chain = Chains[2]
    /\ ledgerLog[a][1].nonce = seeds[Chains[2]]
    /\ att[b].op = "executeMint" /\ att[b].chainId = Undefined
    /\ ledgerLog[b] # <<>> /\ ledgerLog[b][1].chain = Chains[1]
    /\ ledgerLog[b][1].nonce = seeds[Chains[1]]

\* ------------------------------------------------- configured attempt count

\* NaN, what parseInt returns for text with no leading integer.  Every test the
\* retry loop makes on it (i < NaN, i === NaN - 1) is false; the model stands
\* it for a value below every loop index, on which the same tests are false
NaN == 0 - 1

\* process.env.PM_PZERO_RETRY_ATTEMPTS: unset, empty, or text
RetryEnvs == {Undefined, "", "0", "1", "2", "3", "abc"}

\* config.pzero.retryAttempts: parseInt(env || '3', 10)
parseRetryAttempts(env) ==
  LET text == IF env = Undefined \/ env = "" THEN "3" ELSE env IN
    CASE text = "0" -> 0
      [] text = "1" -> 1
      [] text = "2" -> 2
      [] text = "3" -> 3
      [] OTHER -> NaN

InitConfig == InitWith({parseRetryAttempts(env) : env \in RetryEnvs}, {0})

SpecConfig == InitConfig /\ [][NextAuth]_vars

\* C30: with a configured attempt count of 0 or NaN an authorization request
\* posts nothing to the Gateway and fails with the generic Gateway error
\* PZERO_ERROR; with a count of 1 or more it posts at least once
C30_ZeroAttemptsSendNothing ==
  \A a \in Attempts :
    att[a].op = "mintPrompt" =>
      /\ retryAttempts \in {0, NaN} =>
           /\ gatewayLog[a] = <<>>
           /\ att[a].pc = "failed"
           /\ att[a].code = "PZERO_ERROR"
      /\ retryAttempts >= 1 => Len(gatewayLog[a]) >= 1

\* C30 witness: the configured count is not a number and a mint attempt has
\* failed with the generic error without a request
C30_Witness ==
  \E a \in Attempts :
    /\ retryAttempts = NaN
    /\ att[a].op = "mintPrompt"
    /\ att[a].code = "PZERO_ERROR"
    /\ gatewayLog[a] = <<>>

====
